---- MODULE Spec2Model ----
(***************************************************************************)
(* A model of eolearn.core.eodata: the EOPatch container, its validated    *)
(* mapping _FeatureDict, copy / deepcopy, equality and concatenate.        *)
(*                                                                         *)
(* Python objects live in a heap: `heap` holds the mutable values (numpy   *)
(* arrays, lists, bounding boxes), `dicts` the _FeatureDict objects and    *)
(* `patches` the EOPatch objects.  An object is named by its index, so two *)
(* references to one index are two references to one Python object.        *)
(***************************************************************************)
EXTENDS Integers, Sequences, FiniteSets, TLC

VARIABLES heap, dicts, patches, last, steps, fs, task

vars == <<heap, dicts, patches, last, steps, fs, task>>

(***************************************************************************)
(* Bounds of the model.                                                    *)
(***************************************************************************)
MaxSteps == 2
MaxPatches == 2
MaxTsLen == 2

(***************************************************************************)
(* The FeatureType registry (eolearn.core.feature_types).                  *)
(***************************************************************************)
FeatureType ==
    << "data", "mask", "scalar", "label", "vector",
       "data_timeless", "mask_timeless", "scalar_timeless", "label_timeless",
       "vector_timeless", "meta_info", "bbox", "timestamp" >>

FeatureTypes == { FeatureType[i] : i \in 1..Len(FeatureType) }

\* FeatureType.ndim(): the rank of the arrays of a raster type, 0 for None.
ndim(ft) ==
    CASE ft \in {"data", "mask"} -> 4
      [] ft \in {"scalar", "label"} -> 2
      [] ft \in {"data_timeless", "mask_timeless"} -> 3
      [] ft \in {"scalar_timeless", "label_timeless"} -> 1
      [] OTHER -> 0

\* FeatureType.has_dict(): every type but the two singletons holds a dict.
has_dict(ft) == ft \notin {"bbox", "timestamp"}

\* FeatureType.is_time_dependent()
is_time_dependent(ft) == ft \in {"data", "mask", "scalar", "label", "vector"}

DictTypes == { ft \in FeatureTypes : has_dict(ft) }

(***************************************************************************)
(* Python values.  Every value is a record of one shape so that any two    *)
(* can be compared: an ndarray of shape (Len(rows),) + rest whose i-th     *)
(* slice along axis 0 has content rows[i]; a list with items rows; a       *)
(* bounding box named by rows[1]; None.                                    *)
(***************************************************************************)
NoneVal == [kind |-> "none", rest |-> <<>>, rows |-> <<>>]

NdArray(rest, rows) == [kind |-> "ndarray", rest |-> rest, rows |-> rows]

List(rows) == [kind |-> "list", rest |-> <<>>, rows |-> rows]

BBox(b) == [kind |-> "bbox", rest |-> <<>>, rows |-> <<b>>]

\* The value a reference denotes: reference 0 is None.
Deref(h, id) == IF id = 0 THEN NoneVal ELSE h[id]

\* isinstance(value, np.ndarray) and value.ndim
IsNdArray(v) == v.kind = "ndarray"

ArrayNdim(v) == Len(v.rest) + 1

\* Python truthiness of a value: None and an empty list are false.
Truthy(v) == ~(v.kind = "none" \/ (v.kind = "list" /\ v.rows = <<>>))

(***************************************************************************)
(* utilities.deep_eq on values.                                            *)
(***************************************************************************)
deep_eq(v1, v2) == v1 = v2

(***************************************************************************)
(* Python dict contents: a sequence of [k, v] items in insertion order,    *)
(* v a heap reference.                                                     *)
(***************************************************************************)
Keys(items) == { items[i].k : i \in 1..Len(items) }

Lookup(items, name) ==
    LET i == CHOOSE j \in 1..Len(items) : items[j].k = name IN items[i].v

\* dict.__setitem__: an existing key keeps its place, a new one is appended.
DictPut(items, name, ref) ==
    IF name \in Keys(items)
    THEN [i \in 1..Len(items) |->
            IF items[i].k = name THEN [k |-> name, v |-> ref] ELSE items[i]]
    ELSE Append(items, [k |-> name, v |-> ref])

\* dict.__delitem__
DictDel(items, name) == SelectSeq(items, LAMBDA it : it.k # name)

\* The place of a feature name in the order of strings.
KeyOrder(name) ==
    CASE name = "A" -> 1 [] name = "BANDS" -> 2 [] name = "a" -> 3 [] name = "b" -> 4
      [] OTHER -> 5

(***************************************************************************)
(* _FeatureDict                                                            *)
(***************************************************************************)
\* The check of _FeatureDict.__setitem__: whether the write is refused.
FeatureDictRejects(d, v) ==
    d.ndim # 0 /\ (~IsNdArray(v) \/ ArrayNdim(v) # d.ndim)

\* _FeatureDict.__setitem__(feature_name, value) on dict object d.
FeatureDictSetItem(h, d, name, ref) ==
    IF FeatureDictRejects(d, Deref(h, ref))
    THEN [err |-> "ValueError: dimension", d |-> d]
    ELSE [err |-> "", d |-> [d EXCEPT !.items = DictPut(@, name, ref)]]

RECURSIVE FeatureDictFill(_, _, _)
FeatureDictFill(h, d, items) ==
    IF items = <<>> THEN [err |-> "", d |-> d]
    ELSE LET r == FeatureDictSetItem(h, d, Head(items).k, Head(items).v)
         IN  IF r.err # "" THEN r ELSE FeatureDictFill(h, r.d, Tail(items))

\* _FeatureDict(feature_dict, feature_type)
FeatureDictInit(h, items, ft) ==
    FeatureDictFill(h, [feature_type |-> ft, ndim |-> ndim(ft), items |-> <<>>],
                    items)

(***************************************************************************)
(* The store: st = [heap, dicts].  Operations take a store and return a    *)
(* record with the new store, the error raised ("" for none) and a result. *)
(* An argument passed to the patch is None, a heap object, an existing     *)
(* _FeatureDict (by reference) or a raw dict given by its items.           *)
(***************************************************************************)
ArgNone == [kind |-> "none", id |-> 0, items |-> <<>>]

ArgObj(id) == IF id = 0 THEN ArgNone ELSE [kind |-> "obj", id |-> id, items |-> <<>>]

ArgFDict(id) == [kind |-> "fdict", id |-> id, items |-> <<>>]

ArgRaw(items) == [kind |-> "raw", id |-> 0, items |-> items]

EmptyRec == [ft \in FeatureTypes |-> 0]

\* isinstance(value, feature_type.type()): list for timestamp, dict for the
\* mapping types; the bounding box takes any object, None included.
TypeAccepts(h, ft, value) ==
    CASE ft = "timestamp" -> value.kind = "obj" /\ h[value.id].kind = "list"
      [] ft = "bbox" -> value.kind \in {"none", "obj"}
      [] OTHER -> value.kind \in {"raw", "fdict"}

\* SetAttr without the isinstance check.
SetAttrUnchecked(st, rec, key, value) ==
    IF has_dict(key) /\ value.kind # "fdict"
    THEN LET r == FeatureDictInit(st.heap, value.items, key)
         IN  IF r.err # ""
             THEN [err |-> r.err, st |-> st, rec |-> rec]
             ELSE [err |-> "",
                   st |-> [st EXCEPT !.dicts = Append(@, r.d)],
                   rec |-> [rec EXCEPT ![key] = Len(st.dicts) + 1]]
    ELSE [err |-> "", st |-> st, rec |-> [rec EXCEPT ![key] = value.id]]

\* EOPatch.__setattr__(key, value) for a FeatureType key, on patch record rec.
SetAttr(st, rec, key, value) ==
    IF ~TypeAccepts(st.heap, key, value)
    THEN [err |-> "TypeError", st |-> st, rec |-> rec]
    ELSE IF has_dict(key) /\ value.kind # "fdict"
    THEN LET r == FeatureDictInit(st.heap, value.items, key)
         IN  IF r.err # ""
             THEN [err |-> r.err, st |-> st, rec |-> rec]
             ELSE [err |-> "",
                   st |-> [st EXCEPT !.dicts = Append(@, r.d)],
                   rec |-> [rec EXCEPT ![key] = Len(st.dicts) + 1]]
    ELSE [err |-> "", st |-> st, rec |-> [rec EXCEPT ![key] = value.id]]

\* The value __init__ assigns for one keyword: the argument, or the default
\* ({} for a mapping type, [] for timestamp, the argument itself for bbox).
InitValue(st, ft, arg) ==
    IF arg.kind # "none" \/ ft = "bbox"
    THEN [st |-> st, value |-> arg]
    ELSE IF ft = "timestamp"
    THEN [st |-> [st EXCEPT !.heap = Append(@, List(<<>>))],
          value |-> ArgObj(Len(st.heap) + 1)]
    ELSE [st |-> st, value |-> ArgRaw(<<>>)]

RECURSIVE InitFrom(_, _, _, _)
InitFrom(st, rec, kwargs, i) ==
    IF i > Len(FeatureType) THEN [err |-> "", st |-> st, rec |-> rec]
    ELSE LET ft == FeatureType[i]
             iv == InitValue(st, ft, kwargs[ft])
             r  == SetAttr(iv.st, rec, ft, iv.value)
         IN  IF r.err # "" THEN r ELSE InitFrom(r.st, r.rec, kwargs, i + 1)

\* EOPatch(**kwargs): the attributes are assigned in the order of __init__.
EOPatchInit(st, kwargs) ==
    LET r == InitFrom(st, EmptyRec, kwargs, 1)
    IN  IF r.err # "" THEN [err |-> r.err, st |-> st, rec |-> EmptyRec] ELSE r

NoKwargs == [ft \in FeatureTypes |-> ArgNone]

\* EOPatch.add_feature(feature_type, feature_name, value), value a reference.
add_feature(st, rec, ft, name, ref) ==
    IF ~has_dict(ft) THEN [err |-> "TypeError", st |-> st]
    ELSE LET r == FeatureDictSetItem(st.heap, st.dicts[rec[ft]], name, ref)
         IN  IF r.err # "" THEN [err |-> r.err, st |-> st]
             ELSE [err |-> "", st |-> [st EXCEPT !.dicts[rec[ft]] = r.d]]

\* EOPatch.remove_feature(feature_type, feature_name)
remove_feature(st, rec, ft, name) ==
    IF ~has_dict(ft) THEN [err |-> "TypeError", st |-> st]
    ELSE [err |-> "",
          st |-> [st EXCEPT !.dicts[rec[ft]].items = DictDel(@, name)]]

\* EOPatch.get_feature(feature_type, feature_name): the reference stored.
get_feature(st, rec, ft, name) == Lookup(st.dicts[rec[ft]].items, name)

(***************************************************************************)
(* Equality                                                                *)
(***************************************************************************)
\* deep_eq of the values of one namespace of two patches: two dicts are
\* equal when they have the same keys and deeply equal values; the two
\* singletons are compared as values.
NamespaceEq(st, rec1, rec2, ft) ==
    IF has_dict(ft)
    THEN LET i1 == st.dicts[rec1[ft]].items
             i2 == st.dicts[rec2[ft]].items
         IN  /\ Keys(i1) = Keys(i2)
             /\ \A n \in Keys(i1) :
                    deep_eq(Deref(st.heap, Lookup(i1, n)),
                            Deref(st.heap, Lookup(i2, n)))
    ELSE deep_eq(Deref(st.heap, rec1[ft]), Deref(st.heap, rec2[ft]))

RECURSIVE EqFrom(_, _, _, _)
EqFrom(st, rec1, rec2, i) ==
    IF i > Len(FeatureType) THEN TRUE
    ELSE IF ~NamespaceEq(st, rec1, rec2, FeatureType[i]) THEN FALSE
    ELSE EqFrom(st, rec1, rec2, i + 1)

\* __eq__ with the loop stopping before the last namespace (timestamp).
PatchEqButLast(st, rec1, rec2) ==
    \A i \in 1..(Len(FeatureType) - 1) : NamespaceEq(st, rec1, rec2, FeatureType[i])

\* EOPatch.__eq__(self, other), both EOPatch objects.
PatchEq(st, rec1, rec2) == EqFrom(st, rec1, rec2, 1)

(***************************************************************************)
(* Copies                                                                  *)
(***************************************************************************)
\* copy(value) of one namespace value: a new _FeatureDict with the same
\* binding and the same references, a new list or box, or None.
ShallowCopyValue(st, ft, ref) ==
    IF has_dict(ft)
    THEN LET d == st.dicts[ref]
             r == FeatureDictFill(st.heap, [d EXCEPT !.items = <<>>], d.items)
         IN  [st |-> [st EXCEPT !.dicts = Append(@, r.d)],
              value |-> ArgFDict(Len(st.dicts) + 1)]
    ELSE IF ref = 0 THEN [st |-> st, value |-> ArgNone]
    ELSE [st |-> [st EXCEPT !.heap = Append(@, st.heap[ref])],
          value |-> ArgObj(Len(st.heap) + 1)]

\* The items of a dict with every value duplicated.  No dict of the model
\* holds one object under two names, so each value gets its own duplicate.
RECURSIVE DeepCopyItems(_, _, _)
DeepCopyItems(h, items, acc) ==
    IF items = <<>> THEN [heap |-> h, items |-> acc]
    ELSE LET it == Head(items)
         IN  IF it.v = 0
             THEN DeepCopyItems(h, Tail(items), Append(acc, it))
             ELSE DeepCopyItems(Append(h, h[it.v]), Tail(items),
                                Append(acc, [k |-> it.k, v |-> Len(h) + 1]))

\* deepcopy that duplicates the container but not the objects it holds.
DeepCopyValueShared(st, ft, ref) == ShallowCopyValue(st, ft, ref)

\* deepcopy(value) of one namespace value.
DeepCopyValue(st, ft, ref) ==
    IF has_dict(ft)
    THEN LET d == st.dicts[ref]
             c == DeepCopyItems(st.heap, d.items, <<>>)
         IN  [st |-> [heap |-> c.heap,
                      dicts |-> Append(st.dicts, [d EXCEPT !.items = c.items])],
              value |-> ArgFDict(Len(st.dicts) + 1)]
    ELSE IF ref = 0 THEN [st |-> st, value |-> ArgNone]
    ELSE [st |-> [st EXCEPT !.heap = Append(@, st.heap[ref])],
          value |-> ArgObj(Len(st.heap) + 1)]

RECURSIVE CopyFrom(_, _, _, _)
CopyFrom(st, src, new, i) ==
    IF i > Len(FeatureType) THEN [err |-> "", st |-> st, rec |-> new]
    ELSE LET ft == FeatureType[i]
             c  == ShallowCopyValue(st, ft, src[ft])
             r  == SetAttr(c.st, new, ft, c.value)
         IN  IF r.err # "" THEN r ELSE CopyFrom(r.st, src, r.rec, i + 1)

\* EOPatch.__copy__(feature_list=None): every namespace is copied whole.
PatchCopy(st, src) ==
    LET e == EOPatchInit(st, NoKwargs)
    IN  CopyFrom(e.st, src, e.rec, 1)

RECURSIVE DeepCopyFrom(_, _, _)
DeepCopyFrom(st, new, i) ==
    IF i > Len(FeatureType) THEN [err |-> "", st |-> st, rec |-> new]
    ELSE LET ft == FeatureType[i]
             c  == DeepCopyValue(st, ft, new[ft])
             r  == SetAttr(c.st, new, ft, c.value)
         IN  IF r.err # "" THEN r ELSE DeepCopyFrom(r.st, r.rec, i + 1)

\* EOPatch.__deepcopy__(feature_list=None)
PatchDeepCopy(st, src) ==
    LET c == PatchCopy(st, src)
    IN  IF c.err # "" THEN c ELSE DeepCopyFrom(c.st, c.rec, 1)

(***************************************************************************)
(* Copies of a selection.  A feature_list is a sequence of items: a        *)
(* feature type (whole is true), or a tuple (or list) whose first element  *)
(* is the feature type and whose other elements are feature names.  None   *)
(* and the empty list are <<>>.                                            *)
(***************************************************************************)
Whole(ft) == [whole |-> TRUE, ft |-> ft, names |-> <<>>]

Tuple(ft, names) == [whole |-> FALSE, ft |-> ft, names |-> names]

\* The feature_dict of _parse_to_dict: the feature types in the order of
\* their first insertion (order) and for each True (all) or the set of names.
NoSelection ==
    [err |-> "", order |-> <<>>,
     all |-> [ft \in FeatureTypes |-> FALSE], names |-> [ft \in FeatureTypes |-> {}]]

Insert(order, ft) ==
    IF \E i \in 1..Len(order) : order[i] = ft THEN order ELSE Append(order, ft)

\* One round of the loop of _parse_to_dict.
ParseItem(fd, item) ==
    IF item.whole
    THEN [fd EXCEPT !.order = Insert(@, item.ft), !.all[item.ft] = TRUE]
    ELSE IF item.ft \notin FeatureTypes
    THEN [fd EXCEPT !.err = "ValueError: first element"]
    ELSE IF item.ft \in {"timestamp", "bbox"}
    THEN [fd EXCEPT !.err = "ValueError: cannot be in a tuple"]
    ELSE IF fd.all[item.ft] THEN fd
    ELSE [fd EXCEPT !.order = Insert(@, item.ft),
                    !.names[item.ft] = @ \cup { item.names[i] : i \in 1..Len(item.names) }]

RECURSIVE ParseFrom(_, _)
ParseFrom(fd, items) ==
    IF items = <<>> \/ fd.err # "" THEN fd
    ELSE ParseFrom(ParseItem(fd, Head(items)), Tail(items))

\* EOPatch._parse_to_dict(feature_list)
parse_to_dict(feature_list) ==
    IF feature_list = <<>>
    THEN ParseFrom(NoSelection, [i \in 1..Len(FeatureType) |-> Whole(FeatureType[i])])
    ELSE ParseFrom(NoSelection, feature_list)

\* new_eopatch[feature_type][feature_name] = self[feature_type][feature_name]
\* for the names of one feature type.  The names are a set, gone through
\* in no fixed order: from the smallest on, or from the largest on when rev
\* is true.  A name the source does not hold is a KeyError.
RECURSIVE CopyNames(_, _, _, _, _, _)
CopyNames(st, src, new, ft, names, rev) ==
    IF names = {} THEN [err |-> "", st |-> st, rec |-> new]
    ELSE LET n == CHOOSE x \in names : \A y \in names :
                    IF rev THEN KeyOrder(y) <= KeyOrder(x)
                    ELSE KeyOrder(x) <= KeyOrder(y)
         IN  IF n \notin Keys(st.dicts[src[ft]].items)
             THEN [err |-> "KeyError", st |-> st, rec |-> new]
             ELSE LET w == FeatureDictSetItem(st.heap, st.dicts[new[ft]], n,
                                              Lookup(st.dicts[src[ft]].items, n))
                  IN  IF w.err # "" THEN [err |-> w.err, st |-> st, rec |-> new]
                      ELSE CopyNames([st EXCEPT !.dicts[new[ft]] = w.d], src, new, ft,
                                     names \ {n}, rev)

\* One round of the loop of __copy__.
CopySelection(st, src, new, fd, ft, rev) ==
    IF fd.all[ft]
    THEN SetAttr(ShallowCopyValue(st, ft, src[ft]).st, new, ft,
                 ShallowCopyValue(st, ft, src[ft]).value)
    ELSE CopyNames(st, src, new, ft, fd.names[ft], rev)

RECURSIVE CopySelectedFrom(_, _, _, _, _, _)
CopySelectedFrom(st, src, new, fd, i, rev) ==
    IF i > Len(fd.order) THEN [err |-> "", st |-> st, rec |-> new]
    ELSE LET r == CopySelection(st, src, new, fd, fd.order[i], rev)
         IN  IF r.err # "" THEN r
             ELSE CopySelectedFrom(r.st, src, r.rec, fd, i + 1, rev)

\* EOPatch.__copy__(feature_list)
copy_selected(st, src, feature_list, rev) ==
    LET e == EOPatchInit(st, NoKwargs)
    IN  IF parse_to_dict(feature_list).err # ""
        THEN [err |-> parse_to_dict(feature_list).err, st |-> e.st, rec |-> e.rec]
        ELSE CopySelectedFrom(e.st, src, e.rec, parse_to_dict(feature_list), 1, rev)

\* EOPatch.__deepcopy__(feature_list)
deepcopy_selected(st, src, feature_list, rev) ==
    CHOOSE r \in { IF c.err # "" THEN c ELSE DeepCopyFrom(c.st, c.rec, 1) :
                     c \in { copy_selected(st, src, feature_list, rev) } } : TRUE

(***************************************************************************)
(* Concatenation                                                           *)
(***************************************************************************)
\* concatenate_data joining the second array before the first.
concatenate_data_swapped(v1, v2) ==
    IF ~IsNdArray(v1) \/ ~IsNdArray(v2)
    THEN [err |-> "AttributeError", value |-> NoneVal]
    ELSE IF v1.rest # v2.rest
    THEN [err |-> "ValueError: non-temporal dimensions", value |-> NoneVal]
    ELSE [err |-> "", value |-> NdArray(v1.rest, v2.rows \o v1.rows)]

\* EOPatch.concatenate_data(data1, data2): reading .shape of a value that is
\* no array raises AttributeError; np.concatenate builds a new array.
concatenate_data(v1, v2) ==
    IF ~IsNdArray(v1) \/ ~IsNdArray(v2)
    THEN [err |-> "AttributeError", value |-> NoneVal]
    ELSE IF v1.rest # v2.rest
    THEN [err |-> "ValueError: non-temporal dimensions", value |-> NoneVal]
    ELSE [err |-> "", value |-> NdArray(v1.rest, v1.rows \o v2.rows)]

\* timestamps_exist and timestamps_match of concatenate, as truth values.
timestamps_exist(ts1, ts2) == Truthy(ts1) /\ Truthy(ts2)

\* timestamps_match without the test that both lists are non-empty.
timestamps_equal(ts1, ts2) == deep_eq(ts1, ts2)

\* timestamps_match = timestamps_exist and deep_eq(...)
timestamps_match(ts1, ts2) == timestamps_exist(ts1, ts2) /\ deep_eq(ts1, ts2)

\* The merged timestamp with the time points already in the first list left
\* out of the second.
JoinTimestampsDistinct(ts1, ts2) ==
    List(ts1.rows \o SelectSeq(ts2.rows,
                               LAMBDA t : \A i \in 1..Len(ts1.rows) : ts1.rows[i] # t))

\* eopatch1.timestamp + eopatch2.timestamp
JoinTimestamps(ts1, ts2) == List(ts1.rows \o ts2.rows)

\* The merged dict built from the second patch's entries alone.
DictUnionSecondOnly(i1, i2) == i2

\* {**d1, **d2}
RECURSIVE DictUnion(_, _)
DictUnion(i1, i2) ==
    IF i2 = <<>> THEN i1
    ELSE DictUnion(DictPut(i1, Head(i2).k, Head(i2).v), Tail(i2))

\* The loop over the names the two dicts share, taken in the first dict's
\* order: a time-dependent feature is concatenated when the timestamps do
\* not match, any other must be deeply equal in the two patches.
RECURSIVE MergeCommon(_, _, _, _, _, _)
MergeCommon(h, content, names, i1, i2, joined) ==
    IF names = <<>> THEN [err |-> "", heap |-> h, items |-> content]
    ELSE LET n  == Head(names)
             v1 == Deref(h, Lookup(i1, n))
             v2 == Deref(h, Lookup(i2, n))
         IN  IF joined
             THEN LET c == concatenate_data(v1, v2)
                  IN  IF c.err # ""
                      THEN [err |-> c.err, heap |-> h, items |-> content]
                      ELSE MergeCommon(Append(h, c.value),
                                       DictPut(content, n, Len(h) + 1),
                                       Tail(names), i1, i2, joined)
             ELSE IF ~deep_eq(v1, v2)
             THEN [err |-> "ValueError: values differ", heap |-> h,
                   items |-> content]
             ELSE MergeCommon(h, content, Tail(names), i1, i2, joined)

CommonNames(i1, i2) ==
    LET s == SelectSeq(i1, LAMBDA it : it.k \in Keys(i2))
    IN  [j \in 1..Len(s) |-> s[j].k]

\* The rule for a value that is no dict, keeping the first patch's value
\* when the two are set and differ.
MergeSingletonFirstWins(st, rec1, rec2, ft) ==
    LET v1 == Deref(st.heap, rec1[ft])
        v2 == Deref(st.heap, rec2[ft])
        c  == ShallowCopyValue(st, ft, IF ~Truthy(v1) \/ deep_eq(v1, v2)
                                       THEN rec2[ft] ELSE rec1[ft])
    IN  [err |-> "", st |-> c.st, value |-> c.value]

\* The rule for a value that is no dict, always keeping the second patch's.
MergeSingletonSecondOnly(st, rec1, rec2, ft) ==
    LET c == ShallowCopyValue(st, ft, rec2[ft])
    IN  [err |-> "", st |-> c.st, value |-> c.value]

\* The else branch of the loop of concatenate, for a value that is no dict:
\* a copy of the second patch's value when the first is empty or the two
\* are deeply equal, of the first's when the second is empty, else an error.
MergeSingleton(st, rec1, rec2, ft) ==
    LET v1 == Deref(st.heap, rec1[ft])
        v2 == Deref(st.heap, rec2[ft])
    IN  IF ~Truthy(v1) \/ deep_eq(v1, v2)
        THEN LET c == ShallowCopyValue(st, ft, rec2[ft])
             IN  [err |-> "", st |-> c.st, value |-> c.value]
        ELSE IF ~Truthy(v2)
        THEN LET c == ShallowCopyValue(st, ft, rec1[ft])
             IN  [err |-> "", st |-> c.st, value |-> c.value]
        ELSE [err |-> "ValueError: values differ", st |-> st,
              value |-> ArgNone]

\* One turn of the loop of concatenate: the keyword argument for ft.
ConcatValue(st, rec1, rec2, ft) ==
    LET ts1 == Deref(st.heap, rec1["timestamp"])
        ts2 == Deref(st.heap, rec2["timestamp"])
    IN
    IF has_dict(ft)
    THEN LET i1 == st.dicts[rec1[ft]].items
             i2 == st.dicts[rec2[ft]].items
             m  == MergeCommon(st.heap, DictUnion(i1, i2), CommonNames(i1, i2),
                               i1, i2,
                               is_time_dependent(ft) /\ ~timestamps_match(ts1, ts2))
         IN  [err |-> m.err, st |-> [st EXCEPT !.heap = m.heap],
              value |-> ArgRaw(m.items)]
    ELSE IF ft = "timestamp" /\ timestamps_exist(ts1, ts2)
                             /\ ~timestamps_match(ts1, ts2)
    THEN [err |-> "",
          st |-> [st EXCEPT !.heap = Append(@, JoinTimestamps(ts1, ts2))],
          value |-> ArgObj(Len(st.heap) + 1)]
    ELSE MergeSingleton(st, rec1, rec2, ft)

RECURSIVE ConcatFrom(_, _, _, _, _)
ConcatFrom(st, rec1, rec2, content, i) ==
    IF i > Len(FeatureType) THEN [err |-> "", st |-> st, content |-> content]
    ELSE LET ft == FeatureType[i]
             r  == ConcatValue(st, rec1, rec2, ft)
         IN  IF r.err # ""
             THEN [err |-> r.err, st |-> st, content |-> content]
             ELSE ConcatFrom(r.st, rec1, rec2,
                             [content EXCEPT ![ft] = r.value], i + 1)

\* concatenate handing out the mappings of the first patch as they are.
concatenate_sharing(st, rec1, rec2) ==
    LET c == ConcatFrom(st, rec1, rec2, NoKwargs, 1)
    IN  IF c.err # "" THEN [err |-> c.err, st |-> st, rec |-> EmptyRec]
        ELSE [err |-> "", st |-> st, rec |-> rec1]

\* EOPatch.concatenate(eopatch1, eopatch2)
concatenate(st, rec1, rec2) ==
    LET c == ConcatFrom(st, rec1, rec2, NoKwargs, 1)
    IN  IF c.err # "" THEN [err |-> c.err, st |-> st, rec |-> EmptyRec]
        ELSE EOPatchInit(c.st, c.content)

(***************************************************************************)
(* The patch program: callers create patches and apply the operations of   *)
(* EOPatch to them, in any order.                                          *)
(***************************************************************************)
Names == {"a", "b"}

\* The time points of the model.
TimePoints == {1, 2}

\* The namespaces the callers of the model write to by name.
DrivenTypes == {"data", "data_timeless", "vector"}

\* The values the callers pass: a rank-4 array, a rank-3 array and a list.
InputValues ==
    { NdArray(<<1, 1, 1>>, <<0>>), NdArray(<<1, 1>>, <<0>>), List(<<0>>) }

Store == [heap |-> heap, dicts |-> dicts]

PatchIds == 1..Len(patches)

(***************************************************************************)
(* The directory a patch is saved to.  The path is absent, a file, or a    *)
(* directory holding, under the name of a feature type, nothing, a file    *)
(* with a pickled object or a directory of array files, and possibly       *)
(* entries under other names.  A pickled object is a sequence of items     *)
(* [k, v] with v the value itself (one item named "" for a list or a box); *)
(* an array file is [name, ext, v] for the file <name><ext>.               *)
(***************************************************************************)
NoNode == [kind |-> "none", pickle |-> <<>>, files |-> {}]

FileNode(payload) == [kind |-> "file", pickle |-> payload, files |-> {}]

DirNode(files) == [kind |-> "dir", pickle |-> <<>>, files |-> files]

NoPath == [kind |-> "absent", ents |-> [ft \in FeatureTypes |-> NoNode], other |-> FALSE]

FileAtPath == [NoPath EXCEPT !.kind = "file"]

EmptyDir == [NoPath EXCEPT !.kind = "dir"]

\* feature_list=None stands for every feature type.
NoList == <<"None">>

\* The arguments of save and load; found tells what save found at the path
\* (nothing, a file, an empty directory, a directory with entries).
NoOpts ==
    [feature_list |-> NoList, file_format |-> "npy", overwrite |-> FALSE,
     compress |-> FALSE, mmap |-> TRUE, lazy |-> TRUE, found |-> "absent"]

\* The input task and its call of execute in progress: the arguments it was
\* created with (single_scene, bands_feature), where execute stands (pc),
\* the patch it writes to, its arguments bbox and time_interval (<<>> for
\* None), the dates the service listed, the timestamp resolved and the
\* number of requests handed to the download client.
NoTask ==
    [single_scene |-> FALSE, bands_feature |-> FALSE, pc |-> "idle", eopatch |-> 0,
     bbox |-> 0, time_interval |-> <<>>, dates |-> {}, timestamp |-> NoneVal,
     requests |-> 0]

\* The last call and its outcome: the operation, the patches, namespace and
\* name it was given, the value passed (arg), the reference stored (ref),
\* the error raised ("" for none), the patch or truth value returned (ret)
\* any other object returned (out) and the arguments of save or load (opts).
NoCall ==
    [op |-> "init", p |-> 0, q |-> 0, ft |-> "", name |-> "", arg |-> NoneVal,
     ref |-> 0, err |-> "", ret |-> 0, out |-> NoneVal, opts |-> NoOpts]

\* The keyword arguments of the first patch: data and vector are given as
\* raw dicts of one entry or left out; the caller's objects are heap0.
InitHeap == << NdArray(<<1, 1, 1>>, <<0>>), List(<<0>>) >>

InitKwargs(with_data, with_vector) ==
    [ft \in FeatureTypes |->
        CASE ft = "data" /\ with_data -> ArgRaw(<<[k |-> "a", v |-> 1]>>)
          [] ft = "vector" /\ with_vector -> ArgRaw(<<[k |-> "a", v |-> 2]>>)
          [] OTHER -> ArgNone]

\* The state after the first patch is constructed.
Init ==
    \E with_data \in BOOLEAN, with_vector \in BOOLEAN :
      LET e == EOPatchInit([heap |-> InitHeap, dicts |-> <<>>],
                           InitKwargs(with_data, with_vector))
      IN  /\ heap = e.st.heap
          /\ dicts = e.st.dicts
          /\ patches = <<e.rec>>
          /\ last = NoCall
          /\ steps = 0
          /\ fs = NoPath
          /\ task = NoTask

\* p = EOPatch()
New ==
    /\ steps < MaxSteps /\ Len(patches) < MaxPatches
    /\ LET e == EOPatchInit(Store, NoKwargs)
       IN  /\ heap' = e.st.heap
           /\ dicts' = e.st.dicts
           /\ patches' = Append(patches, e.rec)
           /\ last' = [NoCall EXCEPT !.op = "new", !.ret = Len(patches) + 1]
    /\ steps' = steps + 1
    /\ UNCHANGED <<fs, task>>

\* patches[p].add_feature(ft, n, v) with a value v the caller has just built.
AddFeature ==
    /\ steps < MaxSteps
    /\ \E p \in PatchIds, ft \in DrivenTypes, n \in Names, v \in InputValues :
         LET st == [Store EXCEPT !.heap = Append(@, v)]
             r  == add_feature(st, patches[p], ft, n, Len(heap) + 1)
         IN  /\ heap' = IF r.err = "" THEN r.st.heap ELSE heap
             /\ dicts' = IF r.err = "" THEN r.st.dicts ELSE dicts
             /\ last' = [NoCall EXCEPT !.op = "add_feature", !.p = p, !.ft = ft,
                            !.name = n, !.arg = v, !.err = r.err,
                            !.ref = IF r.err = "" THEN Len(heap) + 1 ELSE 0]
    /\ UNCHANGED patches
    /\ steps' = steps + 1
    /\ UNCHANGED <<fs, task>>

\* patches[p].remove_feature(ft, n)
RemoveFeature ==
    /\ steps < MaxSteps
    /\ \E p \in PatchIds, ft \in DrivenTypes, n \in Names :
         LET r == remove_feature(Store, patches[p], ft, n)
         IN  /\ dicts' = r.st.dicts
             /\ last' = [NoCall EXCEPT !.op = "remove_feature", !.p = p,
                            !.ft = ft, !.name = n, !.err = r.err]
    /\ UNCHANGED <<heap, patches>>
    /\ steps' = steps + 1
    /\ UNCHANGED <<fs, task>>

\* The outcome of patches[p][ft] = value (EOPatch.__setitem__), the caller's
\* new objects being those of heap h.
Assign(op, h, p, ft, n, v, value) ==
    LET r == SetAttr([heap |-> h, dicts |-> dicts], patches[p], ft, value)
    IN  /\ heap' = IF r.err = "" THEN r.st.heap ELSE heap
        /\ dicts' = r.st.dicts
        /\ patches' = [patches EXCEPT ![p] = r.rec]
        /\ last' = [NoCall EXCEPT !.op = op, !.p = p, !.ft = ft, !.name = n,
                       !.arg = v, !.err = r.err]

\* patches[p][ft] = {n: v}, a raw dict
SetRaw ==
    /\ steps < MaxSteps
    /\ \E p \in PatchIds, ft \in DrivenTypes, n \in Names, v \in InputValues :
         Assign("set_raw", Append(heap, v), p, ft, n, v,
                ArgRaw(<<[k |-> n, v |-> Len(heap) + 1]>>))
    /\ steps' = steps + 1
    /\ UNCHANGED <<fs, task>>

\* patches[p][ft] = patches[q][ft2], a _FeatureDict some patch holds
SetFeatureDict ==
    /\ steps < MaxSteps
    /\ \E p \in PatchIds, q \in PatchIds, ft \in DrivenTypes, ft2 \in DrivenTypes :
         Assign("set_fdict", heap, p, ft, "", NoneVal, ArgFDict(patches[q][ft2]))
    /\ steps' = steps + 1
    /\ UNCHANGED <<fs, task>>

\* patches[p][ft] = None, for any namespace
SetNone ==
    /\ steps < MaxSteps
    /\ \E p \in PatchIds, ft \in DrivenTypes \cup {"bbox", "timestamp"} :
         Assign("set_none", heap, p, ft, "", NoneVal, ArgNone)
    /\ steps' = steps + 1
    /\ UNCHANGED <<fs, task>>

\* patches[p].set_bbox(box) and patches[p].set_timestamp(list)
SetSingleton ==
    /\ steps < MaxSteps
    /\ \E p \in PatchIds :
         \/ Assign("set_bbox", Append(heap, BBox(1)), p, "bbox", "", BBox(1),
                   ArgObj(Len(heap) + 1))
         \/ \E t \in TimePoints :
              Assign("set_timestamp", Append(heap, List(<<t>>)), p, "timestamp",
                     "", List(<<t>>), ArgObj(Len(heap) + 1))
    /\ steps' = steps + 1
    /\ UNCHANGED <<fs, task>>

\* The outcome of an operation that returns a new patch (or raises).
Returns(op, p, q, r) ==
    /\ heap' = r.st.heap
    /\ dicts' = r.st.dicts
    /\ patches' = IF r.err = "" THEN Append(patches, r.rec) ELSE patches
    /\ last' = [NoCall EXCEPT !.op = op, !.p = p, !.q = q, !.err = r.err,
                   !.ret = IF r.err = "" THEN Len(patches) + 1 ELSE 0]

\* c = copy(patches[p])
Copy ==
    /\ steps < MaxSteps /\ Len(patches) < MaxPatches
    /\ \E p \in PatchIds : Returns("copy", p, 0, PatchCopy(Store, patches[p]))
    /\ steps' = steps + 1
    /\ UNCHANGED <<fs, task>>

\* d = deepcopy(patches[p])
DeepCopy ==
    /\ steps < MaxSteps /\ Len(patches) < MaxPatches
    /\ \E p \in PatchIds :
         Returns("deepcopy", p, 0, PatchDeepCopy(Store, patches[p]))
    /\ steps' = steps + 1
    /\ UNCHANGED <<fs, task>>

\* m = EOPatch.concatenate(patches[p], patches[q])
Concatenate ==
    /\ steps < MaxSteps /\ Len(patches) < MaxPatches
    /\ \E p \in PatchIds, q \in PatchIds :
         Returns("concatenate", p, q, concatenate(Store, patches[p], patches[q]))
    /\ steps' = steps + 1
    /\ UNCHANGED <<fs, task>>

\* patches[p][ft][n][0] = x: a caller writes into the array or list a
\* feature holds, in place.
MutateFeature ==
    /\ steps < MaxSteps
    /\ \E p \in PatchIds, ft \in DrivenTypes, n \in Names :
         /\ n \in Keys(dicts[patches[p][ft]].items)
         /\ LET ref == Lookup(dicts[patches[p][ft]].items, n)
            IN  /\ ref # 0
                /\ heap[ref].rows # <<>>
                /\ heap' = [heap EXCEPT ![ref].rows[1] = 1 - @]
                /\ last' = [NoCall EXCEPT !.op = "mutate", !.p = p, !.ft = ft,
                               !.name = n, !.ref = ref]
    /\ UNCHANGED <<dicts, patches>>
    /\ steps' = steps + 1
    /\ UNCHANGED <<fs, task>>

\* patches[p].timestamp.append(t): a caller extends the list in place.
MutateTimestamp ==
    /\ steps < MaxSteps
    /\ \E p \in PatchIds, t \in TimePoints :
         LET ref == patches[p]["timestamp"]
         IN  /\ Len(heap[ref].rows) < MaxTsLen
             /\ heap' = [heap EXCEPT ![ref].rows = Append(@, t)]
             /\ last' = [NoCall EXCEPT !.op = "mutate", !.p = p,
                            !.ft = "timestamp", !.ref = ref]
    /\ UNCHANGED <<dicts, patches>>
    /\ steps' = steps + 1
    /\ UNCHANGED <<fs, task>>

Next ==
    \/ New
    \/ AddFeature
    \/ RemoveFeature
    \/ SetRaw
    \/ SetFeatureDict
    \/ SetNone
    \/ SetSingleton
    \/ Copy
    \/ DeepCopy
    \/ Concatenate
    \/ MutateFeature
    \/ MutateTimestamp

Spec == Init /\ [][Next]_vars

(***************************************************************************)
(* The program of copies with a feature list: the first patch is written   *)
(* to by add_feature and by assignments of mappings, and copies of a       *)
(* selection are taken.                                                    *)
(***************************************************************************)
\* The feature lists copies are asked for: a whole namespace, names of
\* one, both in either order, names and a whole singleton, a tuple of a
\* singleton, a tuple without names.
Selections ==
    { << Whole("data") >>,
      << Tuple("data", <<"a">>) >>,
      << Tuple("data", <<"a">>), Whole("data") >>,
      << Whole("data"), Tuple("data", <<"a">>) >>,
      << Tuple("data", <<"a", "b">>), Whole("timestamp") >>,
      << Tuple("vector", <<"a">>), Tuple("bbox", <<"a">>) >>,
      << Tuple("timestamp", <<"a">>) >>,
      << Tuple("data_timeless", <<>>) >> }

\* c = patches[p].__copy__(feature_list=sel)
CopySelected ==
    /\ steps < MaxSteps /\ Len(patches) < MaxPatches
    /\ \E p \in PatchIds, sel \in Selections, rev \in BOOLEAN :
         LET r == copy_selected(Store, patches[p], sel, rev)
         IN  /\ heap' = r.st.heap
             /\ dicts' = r.st.dicts
             /\ patches' = IF r.err = "" THEN Append(patches, r.rec) ELSE patches
             /\ last' = [NoCall EXCEPT !.op = "copy_selected", !.p = p,
                            !.arg = List(sel), !.err = r.err,
                            !.ret = IF r.err = "" THEN Len(patches) + 1 ELSE 0]
    /\ steps' = steps + 1
    /\ UNCHANGED <<fs, task>>

\* d = patches[p].__deepcopy__(feature_list=sel)
DeepCopySelected ==
    /\ steps < MaxSteps /\ Len(patches) < MaxPatches
    /\ \E p \in PatchIds, sel \in Selections, rev \in BOOLEAN :
         LET r == deepcopy_selected(Store, patches[p], sel, rev)
         IN  /\ heap' = r.st.heap
             /\ dicts' = r.st.dicts
             /\ patches' = IF r.err = "" THEN Append(patches, r.rec) ELSE patches
             /\ last' = [NoCall EXCEPT !.op = "deepcopy_selected", !.p = p,
                            !.arg = List(sel), !.err = r.err,
                            !.ret = IF r.err = "" THEN Len(patches) + 1 ELSE 0]
    /\ steps' = steps + 1
    /\ UNCHANGED <<fs, task>>

NextSelect == AddFeature \/ SetFeatureDict \/ CopySelected \/ DeepCopySelected

SpecSelect == Init /\ [][NextSelect]_vars

(***************************************************************************)
(* The pair program: two patches are constructed from keyword arguments    *)
(* and then compared or concatenated.  It draws the inputs of the pure     *)
(* operations __eq__ and concatenate.                                      *)
(***************************************************************************)
\* The timestamp lists of the inputs: time points in any order, repeats too.
TimeSeqs == UNION { [1..n -> TimePoints] : n \in 0..MaxTsLen }

Item(n, v) == [k |-> n, v |-> v]

Rank4(last_dim, rows) == NdArray(<<1, 1, last_dim>>, rows)

Rank3(rows) == NdArray(<<1, 1>>, rows)

Arg(ft, items) == [ft |-> ft, items |-> items]

\* The time-dependent arguments of the two patches: data (rank 4) with the
\* same name in both (equal, of other content, of other non-time
\* dimensions, of other length), with different names, in one patch only,
\* and vector holding lists.
TdPairs ==
    LET A0 == <<Item("a", Rank4(1, <<0>>))>>
        A1 == <<Item("a", Rank4(1, <<1>>))>>
        A2 == <<Item("a", Rank4(2, <<0>>))>>
        AL == <<Item("a", Rank4(1, <<0, 1>>))>>
        B0 == <<Item("b", Rank4(1, <<0>>))>>
        L0 == <<Item("a", List(<<0>>))>>
    IN  { <<Arg("data", x[1]), Arg("data", x[2])>> :
            x \in { <<<<>>, <<>>>>, <<A0, A0>>, <<A0, A1>>, <<A0, A2>>,
                    <<A2, A0>>, <<AL, A0>>, <<A0, AL>>, <<A0, B0>>,
                    <<A0, <<>>>>, <<<<>>, A0>> } }
        \cup { <<Arg("vector", L0), Arg("vector", L0)>> }

\* The timeless arguments of the two patches: data_timeless (rank 3) with
\* the same name in both (equal or not), different names, the two names in
\* either order, and in one patch only.
TlPairs ==
    LET T0 == Item("a", Rank3(<<0>>))
        T1 == Item("a", Rank3(<<1>>))
        U0 == Item("b", Rank3(<<0>>))
    IN  { <<Arg("data_timeless", x[1]), Arg("data_timeless", x[2])>> :
            x \in { <<<<>>, <<>>>>, <<<<T0>>, <<T0>>>>, <<<<T0>>, <<T1>>>>,
                    <<<<T0>>, <<U0>>>>, <<<<T0, U0>>, <<U0, T0>>>>,
                    <<<<T0>>, <<>>>>, <<<<>>, <<T0>>>> } }

\* The caller builds the values of a raw dict: each becomes a heap object.
RECURSIVE AllocItems(_, _, _)
AllocItems(h, items, acc) ==
    IF items = <<>> THEN [heap |-> h, items |-> acc]
    ELSE AllocItems(Append(h, Head(items).v), Tail(items),
                    Append(acc, [k |-> Head(items).k, v |-> Len(h) + 1]))

\* The bounding boxes of the two patches: box 0 stands for None.
BoxPairs == { <<0, 0>>, <<1, 0>>, <<0, 1>>, <<1, 1>>, <<1, 2>> }

\* EOPatch(<td.ft>=td.items, <tl.ft>=tl.items, bbox=box, timestamp=ts)
BuildPatch(st, ts, td, tl, box) ==
    LET a1 == AllocItems(st.heap, td.items, <<>>)
        a2 == AllocItems(a1.heap, tl.items, <<>>)
        h0 == Append(a2.heap, List(ts))
        h  == IF box = 0 THEN h0 ELSE Append(h0, BBox(box))
        kw == [ft \in FeatureTypes |->
                 CASE ft = td.ft -> ArgRaw(a1.items)
                   [] ft = tl.ft -> ArgRaw(a2.items)
                   [] ft = "timestamp" -> ArgObj(Len(h0))
                   [] ft = "bbox" -> IF box = 0 THEN ArgNone ELSE ArgObj(Len(h))
                   [] OTHER -> ArgNone]
    IN  EOPatchInit([heap |-> h, dicts |-> st.dicts], kw)

\* The contents the two patches are built from: every pair of mapping
\* contents without boxes, and every pair of boxes with the time-dependent
\* or the timeless contents alone.
PairInputs ==
    LET none(ft) == <<Arg(ft, <<>>), Arg(ft, <<>>)>>
    IN  { <<td, tl, <<0, 0>>>> : td \in TdPairs, tl \in TlPairs }
          \cup { <<td, none("data_timeless"), box>> :
                   td \in TdPairs, box \in BoxPairs }
          \cup { <<none("data"), tl, box>> : tl \in TlPairs, box \in BoxPairs }

InitPair ==
    \E ts1 \in TimeSeqs, ts2 \in TimeSeqs, in \in PairInputs :
      LET td  == in[1]
          tl  == in[2]
          box == in[3]
          b1 == BuildPatch([heap |-> <<>>, dicts |-> <<>>], ts1, td[1], tl[1],
                           box[1])
          b2 == BuildPatch(b1.st, ts2, td[2], tl[2], box[2])
      IN  /\ heap = b2.st.heap
          /\ dicts = b2.st.dicts
          /\ patches = <<b1.rec, b2.rec>>
          /\ last = NoCall
          /\ steps = 0
          /\ fs = NoPath
          /\ task = NoTask

\* patches[1] + patches[2]
ConcatPair ==
    /\ steps = 0
    /\ Returns("concatenate", 1, 2, concatenate(Store, patches[1], patches[2]))
    /\ steps' = 1
    /\ UNCHANGED <<fs, task>>

\* patches[p] == patches[q]
ComparePair ==
    /\ steps = 0
    /\ \E p \in PatchIds, q \in PatchIds :
         last' = [NoCall EXCEPT !.op = "eq", !.p = p, !.q = q,
                     !.ret = IF PatchEq(Store, patches[p], patches[q])
                             THEN 1 ELSE 0]
    /\ UNCHANGED <<heap, dicts, patches>>
    /\ steps' = 1
    /\ UNCHANGED <<fs, task>>

NextPair == ConcatPair \/ ComparePair

SpecPair == InitPair /\ [][NextPair]_vars

(***************************************************************************)
(* What a reader of a patch sees.                                          *)
(***************************************************************************)
\* The contents of namespace ft of a patch: for a mapping namespace the set
\* of (name, value) pairs, for a singleton the value.
View(h, ds, rec, ft) ==
    IF has_dict(ft)
    THEN { <<ds[rec[ft]].items[i].k, Deref(h, ds[rec[ft]].items[i].v)>> :
             i \in 1..Len(ds[rec[ft]].items) }
    ELSE { <<"", Deref(h, rec[ft])>> }

\* Whether v is a value namespace ft is meant to hold.
ValidFor(ft, v) == ndim(ft) = 0 \/ (IsNdArray(v) /\ ArrayNdim(v) = ndim(ft))

ArrayTypes == { ft \in FeatureTypes : ndim(ft) # 0 }

(***************************************************************************)
(* C1.  Rank invariant: after any sequence of patch operations, every      *)
(* value stored in the mapping of an array namespace N is an array of      *)
(* exactly N's expected rank.                                              *)
(* The code does not keep it: __setattr__ stores a mapping that is already *)
(* a _FeatureDict as it is, whatever namespace it is bound to.             *)
(***************************************************************************)
C1_RankInvariant ==
    \A p \in PatchIds : \A ft \in ArrayTypes :
      \A pair \in View(heap, dicts, patches[p], ft) : ValidFor(ft, pair[2])

(***************************************************************************)
(* C2.  add_feature(N, n, A) with A valid for N succeeds, get_feature(N, n) *)
(* then returns A, and no other entry of any namespace of the patch        *)
(* changes.                                                                *)
(* It fails on a patch whose namespace holds a mapping bound to (or shared *)
(* with) another namespace, which C1's defect lets in.                     *)
(***************************************************************************)
C2_AddThenGet ==
    [][ (last'.op = "add_feature" /\ ValidFor(last'.ft, last'.arg)) =>
          LET rec == patches'[last'.p]
          IN  /\ last'.err = ""
              /\ Deref(heap', get_feature([heap |-> heap', dicts |-> dicts'],
                                          rec, last'.ft, last'.name))
                   = last'.arg
              /\ \A ft \in FeatureTypes \ {last'.ft} :
                   View(heap', dicts', rec, ft)
                     = View(heap, dicts, patches[last'.p], ft)
              /\ \A pair \in View(heap, dicts, patches[last'.p], last'.ft) :
                   pair[1] # last'.name
                     => pair \in View(heap', dicts', rec, last'.ft)
              /\ \A pair \in View(heap', dicts', rec, last'.ft) :
                   pair[1] # last'.name
                     => pair \in View(heap, dicts, patches[last'.p], last'.ft)
      ]_vars

(***************************************************************************)
(* C3.  Writing to an array namespace N a value that is not an array of    *)
(* N's rank (by add_feature or inside a raw mapping assigned to N) fails   *)
(* with the dimension error and leaves the patch as it was.                *)
(* It fails for the same reason as C2: a mapping bound to another          *)
(* namespace checks the other namespace's rank, or none.                   *)
(***************************************************************************)
C3_BadWriteRejected ==
    [][ (/\ last'.op \in {"add_feature", "set_raw"}
         /\ last'.ft \in ArrayTypes
         /\ ~ValidFor(last'.ft, last'.arg)) =>
          /\ last'.err = "ValueError: dimension"
          /\ UNCHANGED <<heap, dicts, patches>>
      ]_vars

(***************************************************************************)
(* C4.  Reading a namespace never yields None.                             *)
(* As stated it fails for bbox: __init__ assigns the bbox argument as it   *)
(* is, and its default is None.  Amended: reading any namespace other than *)
(* bbox never yields None (a mapping namespace reads as a mapping, the     *)
(* timestamp as a list, assigning None to either is refused); bbox reads   *)
(* as None on a patch constructed without one or after None is assigned.   *)
(***************************************************************************)
IsNone(rec, ft) == ~has_dict(ft) /\ rec[ft] = 0

KeySeq(items) == [i \in 1..Len(items) |-> items[i].k]

C5_Equality ==
    last.op = "eq" =>
      LET r1 == patches[last.p]
          r2 == patches[last.q]
      IN  /\ (last.ret = 1) <=>
               \A ft \in FeatureTypes :
                 View(heap, dicts, r1, ft) = View(heap, dicts, r2, ft)
          /\ last.p = last.q => last.ret = 1
          /\ (last.ret = 1) <=> PatchEq(Store, r2, r1)

C5_Witness ==
    /\ last.op = "eq" /\ last.p = 1 /\ last.q = 2 /\ last.ret = 1
    /\ KeySeq(dicts[patches[1]["data_timeless"]].items)
         # KeySeq(dicts[patches[2]["data_timeless"]].items)
    /\ Deref(heap, patches[1]["timestamp"]).rows # <<>>

(***************************************************************************)
(* C6.  A shallow copy c of p has its own mappings, which bind the same    *)
(* names to the very arrays of p: writing into an array through c shows    *)
(* through p, adding or removing a name in c does not change p.  A deep    *)
(* copy d of p is equal to p when made and shares no array, list, box or   *)
(* mapping with any other patch: nothing done to d shows through p.        *)
(***************************************************************************)
\* The heap objects and the mappings a patch refers to.
HeapRefs(rec) ==
    UNION { { dicts[rec[ft]].items[i].v : i \in 1..Len(dicts[rec[ft]].items) } :
              ft \in DictTypes }
      \cup { rec["bbox"], rec["timestamp"] }

DictRefs(rec) == { rec[ft] : ft \in DictTypes }

PatchView(h, ds, rec) == [ft \in FeatureTypes |-> View(h, ds, rec, ft)]

C6_Copied ==
    (last.op = "copy" /\ last.err = "") =>
      \A ft \in DictTypes :
        /\ dicts[patches[last.ret][ft]].items = dicts[patches[last.p][ft]].items
        /\ \A q \in PatchIds \ {last.ret} :
             patches[last.ret][ft] \notin DictRefs(patches[q])

C6_DeepCopied ==
    (last.op = "deepcopy" /\ last.err = "") =>
      /\ PatchEq(Store, patches[last.ret], patches[last.p])
      /\ \A q \in PatchIds \ {last.ret} :
           /\ (HeapRefs(patches[last.ret]) \cap HeapRefs(patches[q])) \subseteq {0}
           /\ DictRefs(patches[last.ret]) \cap DictRefs(patches[q]) = {}

\* The step that follows the copy, taken on the copy.
C6_StepOnCopy ==
    /\ (/\ last.op = "copy" /\ last.err = ""
        /\ last'.op = "mutate" /\ last'.p = last.ret /\ last'.ft \in DictTypes) =>
         LET seen(h, ds, rec) ==
               Deref(h, Lookup(ds[rec[last'.ft]].items, last'.name))
         IN  /\ seen(heap', dicts', patches'[last.p])
                  = seen(heap', dicts', patches'[last.ret])
             /\ seen(heap', dicts', patches'[last.p])
                  # seen(heap, dicts, patches[last.p])
    /\ (/\ last.op = "copy" /\ last.err = ""
        /\ last'.op \in {"add_feature", "remove_feature"}
        /\ last'.p = last.ret) =>
         PatchView(heap', dicts', patches'[last.p])
           = PatchView(heap, dicts, patches[last.p])
    /\ (/\ last.op = "deepcopy" /\ last.err = ""
        /\ last'.op \in {"mutate", "add_feature", "remove_feature"}
        /\ last'.p = last.ret) =>
         PatchView(heap', dicts', patches'[last.p])
           = PatchView(heap, dicts, patches[last.p])

C6_CopyDepth == [](C6_Copied /\ C6_DeepCopied) /\ [][C6_StepOnCopy]_vars

C6_Witness ==
    /\ last.op = "mutate" /\ last.p = 2 /\ last.ft = "data" /\ last.name = "a"
    /\ "a" \in Keys(dicts[patches[1]["data"]].items)
    /\ Lookup(dicts[patches[1]["data"]].items, "a") = last.ref
    /\ patches[1]["data"] # patches[2]["data"]
    /\ heap[last.ref].rows = <<1>>

(***************************************************************************)
(* What concatenate(p1, p2) was given and what it returned: p1 and p2 are  *)
(* patches[last.p] and patches[last.q], the merged patch is                *)
(* patches[last.ret] when the call raised nothing.                         *)
(***************************************************************************)
TimeTypes == { ft \in DictTypes : is_time_dependent(ft) }

Stamps(rec) == Deref(heap, rec["timestamp"]).rows

Held(rec, ft, n) == Deref(heap, Lookup(dicts[rec[ft]].items, n))

Named(rec, ft) == Keys(dicts[rec[ft]].items)

InBoth(r1, r2, ft) == Named(r1, ft) \cap Named(r2, ft)

\* Two arrays that can be joined along the time axis.
Joinable(v1, v2) == IsNdArray(v1) /\ IsNdArray(v2) /\ v1.rest = v2.rest

\* Some feature of a time-dependent namespace has to be joined and cannot.
JoinFails(r1, r2) ==
    /\ ~(Stamps(r1) # <<>> /\ Stamps(r1) = Stamps(r2))
    /\ \E ft \in TimeTypes : \E n \in InBoth(r1, r2, ft) :
         ~Joinable(Held(r1, ft, n), Held(r2, ft, n))

\* The two bounding boxes are both set and differ.
BoxesDiffer(r1, r2) ==
    /\ r1["bbox"] # 0 /\ r2["bbox"] # 0
    /\ Deref(heap, r1["bbox"]) # Deref(heap, r2["bbox"])

(***************************************************************************)
(* C7.  concatenate(p1, p2) with timestamp sequences that are not          *)
(* identical: a feature of a time-dependent namespace held by both patches *)
(* as arrays of equal non-time dimensions is, in the merged patch, p1's    *)
(* array followed by p2's along axis 0, of length the sum of the two       *)
(* lengths; when the non-time dimensions differ the call raises the error  *)
(* of concatenate_data on non-temporal dimensions.                         *)
(***************************************************************************)
C7_JoinedAlongTime ==
    (last.op = "concatenate" /\ Stamps(patches[last.p]) # Stamps(patches[last.q])) =>
      LET r1 == patches[last.p]
          r2 == patches[last.q]
      IN  \A ft \in TimeTypes : \A n \in InBoth(r1, r2, ft) :
            LET v1 == Held(r1, ft, n)
                v2 == Held(r2, ft, n)
            IN  (IsNdArray(v1) /\ IsNdArray(v2)) =>
                  IF v1.rest = v2.rest
                  THEN last.err = "" =>
                         LET m == Held(patches[last.ret], ft, n)
                         IN  /\ m = NdArray(v1.rest, v1.rows \o v2.rows)
                             /\ Len(m.rows) = Len(v1.rows) + Len(v2.rows)
                  ELSE last.err = "ValueError: non-temporal dimensions"

C7_Witness ==
    /\ last.op = "concatenate" /\ last.err = ""
    /\ Stamps(patches[last.p]) = <<1, 2>> /\ Stamps(patches[last.q]) = <<2>>
    /\ "a" \in InBoth(patches[last.p], patches[last.q], "data")
    /\ Held(patches[last.p], "data", "a").rows = <<0, 1>>
    /\ Held(patches[last.q], "data", "a").rows = <<0>>
    /\ Held(patches[last.ret], "data", "a").rows = <<0, 1, 0>>

(***************************************************************************)
(* C8.  concatenate(p1, p2) with identical timestamp sequences, both empty *)
(* included: a feature of a time-dependent namespace held by both patches  *)
(* is never joined; the call keeps the value when the two are deeply equal *)
(* and raises the values-differ error when they are not.                   *)
(* The code joins such features when both timestamp lists are empty:       *)
(* timestamps_match is false unless the two lists are non-empty.           *)
(***************************************************************************)
C8_IdenticalNeverJoined ==
    (last.op = "concatenate" /\ Stamps(patches[last.p]) = Stamps(patches[last.q])) =>
      LET r1 == patches[last.p]
          r2 == patches[last.q]
      IN  \A ft \in TimeTypes : \A n \in InBoth(r1, r2, ft) :
            /\ Held(r1, ft, n) # Held(r2, ft, n) =>
                 last.err = "ValueError: values differ"
            /\ last.err = "" =>
                 Held(patches[last.ret], ft, n) = Held(r1, ft, n)

(***************************************************************************)
(* C8 as the code has it.  With identical non-empty timestamp sequences a  *)
(* feature of a time-dependent namespace held by both patches is never     *)
(* joined: the call raises the values-differ error when the two values     *)
(* differ, and succeeds keeping the value when no value held by both       *)
(* patches differs.  With both timestamp sequences empty such a feature is *)
(* joined along axis 0 as for timestamps that are not identical.           *)
(***************************************************************************)
C8_MatchingNeverJoined ==
    last.op = "concatenate" =>
      LET r1 == patches[last.p]
          r2 == patches[last.q]
      IN  /\ (Stamps(r1) # <<>> /\ Stamps(r1) = Stamps(r2)) =>
               /\ \A ft \in TimeTypes : \A n \in InBoth(r1, r2, ft) :
                    /\ Held(r1, ft, n) # Held(r2, ft, n) =>
                         last.err = "ValueError: values differ"
                    /\ last.err = "" =>
                         Held(patches[last.ret], ft, n) = Held(r1, ft, n)
               /\ ( /\ \A ft \in DictTypes : \A n \in InBoth(r1, r2, ft) :
                         Held(r1, ft, n) = Held(r2, ft, n)
                    /\ ~BoxesDiffer(r1, r2) ) => last.err = ""
          /\ (Stamps(r1) = <<>> /\ Stamps(r2) = <<>>) =>
               \A ft \in TimeTypes : \A n \in InBoth(r1, r2, ft) :
                 LET v1 == Held(r1, ft, n)
                     v2 == Held(r2, ft, n)
                 IN  (IsNdArray(v1) /\ IsNdArray(v2)) =>
                       IF v1.rest = v2.rest
                       THEN last.err = "" =>
                              Held(patches[last.ret], ft, n)
                                = NdArray(v1.rest, v1.rows \o v2.rows)
                       ELSE last.err = "ValueError: non-temporal dimensions"

C8_Witness ==
    /\ last.op = "concatenate" /\ last.err = ""
    /\ Stamps(patches[last.p]) = <<1, 2>> /\ Stamps(patches[last.q]) = <<1, 2>>
    /\ "a" \in InBoth(patches[last.p], patches[last.q], "data")
    /\ Held(patches[last.p], "data", "a") = Held(patches[last.q], "data", "a")
    /\ Held(patches[last.ret], "data", "a") = Held(patches[last.p], "data", "a")

C10_MergedTimestamp ==
    (last.op = "concatenate" /\ last.err = "") =>
      LET t1 == Stamps(patches[last.p])
          t2 == Stamps(patches[last.q])
          m  == Deref(heap, patches[last.ret]["timestamp"])
      IN  /\ m.kind = "list"
          /\ (t1 # <<>> /\ t2 # <<>> /\ t1 # t2) => m.rows = t1 \o t2
          /\ t1 = t2 => m.rows = t1
          /\ (t1 = <<>> /\ t2 # <<>>) => m.rows = t2
          /\ (t1 # <<>> /\ t2 = <<>>) => m.rows = t1

C10_Witness ==
    /\ last.op = "concatenate" /\ last.err = ""
    /\ Stamps(patches[last.p]) = <<1, 2>> /\ Stamps(patches[last.q]) = <<2, 1>>
    /\ Stamps(patches[last.ret]) = <<1, 2, 2, 1>>

(***************************************************************************)
(* C11.  The bounding box of concatenate(p1, p2): when one patch only has  *)
(* a box the merged patch has it; when both have one the two must be       *)
(* deeply equal, and the merged box is that box, else the call raises;     *)
(* when neither has one the merged patch has none.  A merge in which no    *)
(* value clashes succeeds.                                                 *)
(***************************************************************************)
\* Some feature that is not joined is held by both patches with two values.
ValuesClash(r1, r2) ==
    \E ft \in DictTypes : \E n \in InBoth(r1, r2, ft) :
      /\ ft \notin TimeTypes \/ (Stamps(r1) # <<>> /\ Stamps(r1) = Stamps(r2))
      /\ Held(r1, ft, n) # Held(r2, ft, n)

C11_MergedBox ==
    last.op = "concatenate" =>
      LET r1 == patches[last.p]
          r2 == patches[last.q]
          b1 == Deref(heap, r1["bbox"])
          b2 == Deref(heap, r2["bbox"])
      IN  /\ (b1 # NoneVal /\ b2 # NoneVal /\ b1 # b2) =>
               (last.err # "" /\ last.ret = 0)
          /\ (~BoxesDiffer(r1, r2) /\ ~ValuesClash(r1, r2) /\ ~JoinFails(r1, r2)) =>
               last.err = ""
          /\ last.err = "" =>
               LET m == Deref(heap, patches[last.ret]["bbox"])
               IN  /\ (b1 # NoneVal /\ b2 = NoneVal) => m = b1
                   /\ (b1 = NoneVal /\ b2 # NoneVal) => m = b2
                   /\ (b1 # NoneVal /\ b2 # NoneVal) => (b1 = b2 /\ m = b1)
                   /\ (b1 = NoneVal /\ b2 = NoneVal) => m = NoneVal

C11_Witness ==
    /\ last.op = "concatenate" /\ last.err = ""
    /\ Deref(heap, patches[last.p]["bbox"]) = BBox(1)
    /\ patches[last.q]["bbox"] = 0
    /\ Deref(heap, patches[last.ret]["bbox"]) = BBox(1)

(***************************************************************************)
(* C12.  For patches p1 and p2 that share no feature name in any namespace *)
(* and whose timestamp sequences are equal or not both non-empty,          *)
(* concatenate(p1, p2) and concatenate(p2, p1) both raise or both return,  *)
(* and the two patches returned are equal.                                 *)
(***************************************************************************)
C12_Commutes ==
    LET r1 == patches[last.p]
        r2 == patches[last.q]
    IN  ( /\ last.op = "concatenate"
          /\ \A ft \in DictTypes : InBoth(r1, r2, ft) = {}
          /\ Stamps(r1) = Stamps(r2) \/ Stamps(r1) = <<>> \/ Stamps(r2) = <<>> ) =>
          LET back == concatenate(Store, r2, r1)
          IN  /\ (last.err = "") <=> (back.err = "")
              /\ last.err = "" => PatchEq(back.st, patches[last.ret], back.rec)

C12_Witness ==
    /\ last.op = "concatenate" /\ last.err = ""
    /\ Named(patches[last.p], "data") = {"a"}
    /\ Named(patches[last.q], "data") = {"b"}
    /\ Stamps(patches[last.p]) = <<1>> /\ Stamps(patches[last.q]) = <<>>
    /\ patches[last.p]["bbox"] = 0 /\ patches[last.q]["bbox"] # 0
    /\ Named(patches[last.ret], "data") = {"a", "b"}
    /\ Stamps(patches[last.ret]) = <<1>>
    /\ concatenate(Store, patches[last.q], patches[last.p]).err = ""

(***************************************************************************)
(* Frames: consolidate_timestamps and time_series.  A time point is a      *)
(* number of seconds; a frame of an array or a list is named by a number.  *)
(***************************************************************************)
MaxFrames == 3

\* A Python set, as a value.
SetVal(S) == [kind |-> "set", rest |-> <<>>, rows |-> S]

Range(seq) == { seq[i] : i \in 1..Len(seq) }

\* list.index(x): the first position that holds x.
Index(seq, x) ==
    CHOOSE i \in 1..Len(seq) : seq[i] = x /\ \A j \in 1..(i - 1) : seq[j] # x

\* [idx for idx, _ in enumerate(x) if idx not in bad], for x of length n
KeptIdxs(n, bad) == SelectSeq([i \in 1..n |-> i], LAMBDA i : i \notin bad)

\* TakeFrames handing back all frames.
TakeFramesAll(v, idxs) == [err |-> "", value |-> v]

\* value[good_timestamp_idxs, ...] and [value[idx] for idx in ...]: a new
\* array or list of the frames at the positions idxs; IndexError when a
\* position lies beyond the value's first axis.
TakeFrames(v, idxs) ==
    IF \E j \in 1..Len(idxs) : idxs[j] > Len(v.rows)
    THEN [err |-> "IndexError", value |-> NoneVal]
    ELSE [err |-> "",
          value |-> [v EXCEPT !.rows = [j \in 1..Len(idxs) |-> v.rows[idxs[j]]]]]

\* The loop over the items of one time-dependent dict.
RECURSIVE ConsolidateItems(_, _, _, _)
ConsolidateItems(st, dref, items, idxs) ==
    IF items = <<>> THEN [err |-> "", st |-> st]
    ELSE LET v == Deref(st.heap, Head(items).v)
         IN  IF v.kind \notin {"ndarray", "list"}
             THEN ConsolidateItems(st, dref, Tail(items), idxs)
             ELSE LET t == TakeFrames(v, idxs)
                      h == Append(st.heap, t.value)
                      r == FeatureDictSetItem(h, st.dicts[dref], Head(items).k,
                                              Len(h))
                  IN  IF t.err # "" THEN [err |-> t.err, st |-> st]
                      ELSE IF r.err # "" THEN [err |-> r.err, st |-> st]
                      ELSE ConsolidateItems(
                             [heap |-> h, dicts |-> [st.dicts EXCEPT ![dref] = r.d]],
                             dref, Tail(items), idxs)

\* The loop over the time-dependent feature types.
RECURSIVE ConsolidateFrom(_, _, _, _)
ConsolidateFrom(st, rec, idxs, i) ==
    IF i > Len(FeatureType) THEN [err |-> "", st |-> st]
    ELSE IF ~is_time_dependent(FeatureType[i])
    THEN ConsolidateFrom(st, rec, idxs, i + 1)
    ELSE LET dref == rec[FeatureType[i]]
             r == ConsolidateItems(st, dref, st.dicts[dref].items, idxs)
         IN  IF r.err # "" THEN r ELSE ConsolidateFrom(r.st, rec, idxs, i + 1)

\* EOPatch.consolidate_timestamps(timestamps), timestamps given as a list.
consolidate_timestamps(st, rec, timestamps) ==
    LET ts == st.heap[rec["timestamp"]].rows
        remove_from_patch == Range(ts) \ Range(timestamps)
        remove_from_patch_idxs == { Index(ts, d) : d \in remove_from_patch }
        good_timestamp_idxs == KeptIdxs(Len(ts), remove_from_patch_idxs)
        good_timestamps == [j \in 1..Len(good_timestamp_idxs) |->
                              ts[good_timestamp_idxs[j]]]
        r == ConsolidateFrom(st, rec, good_timestamp_idxs, 1)
        h == Append(r.st.heap, List(good_timestamps))
        a == SetAttr([r.st EXCEPT !.heap = h], rec, "timestamp", ArgObj(Len(h)))
    IN  IF r.err # ""
        THEN [err |-> r.err, st |-> r.st, rec |-> rec, out |-> NoneVal]
        ELSE [err |-> a.err, st |-> a.st, rec |-> a.rec,
              out |-> SetVal(remove_from_patch)]

\* round(n / d) on a quotient of integers, d > 0, cut off towards minus
\* infinity.
RoundDown(n, d) == n \div d

\* round(n / d) on a quotient of integers, d > 0: the nearest integer, a
\* half going to the even neighbour.
Round(n, d) ==
    LET q == n \div d
        r == n % d
    IN  IF 2 * r < d THEN q
        ELSE IF 2 * r > d THEN q + 1
        ELSE IF q % 2 = 0 THEN q ELSE q + 1

\* EOPatch.time_series(ref_date, scale_time): ref_date is <<>> for None or
\* <<t>>; the result is None or a new array of one dimension.
time_series(st, rec, ref_date, scale_time) ==
    LET ts == Deref(st.heap, rec["timestamp"])
        ref == IF ref_date = <<>> THEN ts.rows[1] ELSE ref_date[1]
    IN  IF ~Truthy(ts) THEN NoneVal
        ELSE NdArray(<<>>, [i \in 1..Len(ts.rows) |->
                              Round(ts.rows[i] - ref, scale_time)])

FrameTimes == {0, 40, 90}

Scales == {1, 60}

FrameSeqs == UNION { [1..n -> FrameTimes] : n \in 0..MaxFrames }

KeepLists == { <<>>, <<0>>, <<40>>, <<0, 90>>, <<90, 40>>, <<0, 40, 90>> }

\* EOPatch(data={'a': A}, vector={'v': L}, data_timeless={'t': B},
\* timestamp=ts) with A and L of one frame per time point, the frames named
\* 1, 2, ...; data and vector are left out when with_data, with_vector are
\* false.
FramePatch(ts, with_data, with_vector) ==
    LET frames == [i \in 1..Len(ts) |-> i]
        h == << NdArray(<<1, 1, 1>>, frames), List(frames), Rank3(<<0>>), List(ts) >>
        kw == [ft \in FeatureTypes |->
                 CASE ft = "data" /\ with_data -> ArgRaw(<<Item("a", 1)>>)
                   [] ft = "vector" /\ with_vector -> ArgRaw(<<Item("v", 2)>>)
                   [] ft = "data_timeless" -> ArgRaw(<<Item("t", 3)>>)
                   [] ft = "timestamp" -> ArgObj(4)
                   [] OTHER -> ArgNone]
    IN  EOPatchInit([heap |-> h, dicts |-> <<>>], kw)

InitFrames ==
    \E ts \in FrameSeqs, with_data \in BOOLEAN, with_vector \in BOOLEAN :
      LET b == FramePatch(ts, with_data, with_vector)
      IN  /\ heap = b.st.heap
          /\ dicts = b.st.dicts
          /\ patches = <<b.rec>>
          /\ last = NoCall
          /\ steps = 0
          /\ fs = NoPath
          /\ task = NoTask

\* removed = patches[1].consolidate_timestamps(keep)
ConsolidateTimestamps ==
    /\ steps < MaxSteps
    /\ \E keep \in KeepLists :
         LET r == consolidate_timestamps(Store, patches[1], keep)
         IN  /\ heap' = r.st.heap
             /\ dicts' = r.st.dicts
             /\ patches' = [patches EXCEPT ![1] = r.rec]
             /\ last' = [NoCall EXCEPT !.op = "consolidate_timestamps", !.p = 1,
                            !.arg = List(keep), !.err = r.err, !.out = r.out]
    /\ steps' = steps + 1
    /\ UNCHANGED <<fs, task>>

\* series = patches[1].time_series(ref_date, scale_time)
TimeSeries ==
    /\ steps < MaxSteps
    /\ \E ref_date \in {<<>>} \cup { <<t>> : t \in FrameTimes }, scale_time \in Scales :
         last' = [NoCall EXCEPT !.op = "time_series", !.p = 1,
                     !.arg = List(ref_date), !.ref = scale_time,
                     !.out = time_series(Store, patches[1], ref_date, scale_time)]
    /\ UNCHANGED <<heap, dicts, patches>>
    /\ steps' = steps + 1
    /\ UNCHANGED <<fs, task>>

NextFrames == ConsolidateTimestamps \/ TimeSeries

SpecFrames == InitFrames /\ [][NextFrames]_vars

(***************************************************************************)
(* C13.  consolidate_timestamps(keep) on a patch with timestamp sequence   *)
(* T, repeated time points allowed: it returns the set of the time points  *)
(* of T that are not in keep; afterwards the timestamp sequence is T       *)
(* without the positions that held a returned time point, so every time    *)
(* point left is in keep and the order is kept; and every array or list of *)
(* a time-dependent namespace has lost the same positions of its first     *)
(* axis.                                                                   *)
(* The code drops, for each returned time point, only the first position   *)
(* that holds it (list.index), so a repeated time point stays.             *)
(***************************************************************************)
C13_Step ==
    (last'.op = "consolidate_timestamps" /\ last'.err = "") =>
      LET rec  == patches[last'.p]
          rec2 == patches'[last'.p]
          T    == heap[rec["timestamp"]].rows
          T2   == heap'[rec2["timestamp"]].rows
          keep == Range(last'.arg.rows)
          left == SelectSeq([i \in 1..Len(T) |-> i], LAMBDA i : T[i] \in keep)
      IN  /\ last'.out = SetVal(Range(T) \ keep)
          /\ T2 = [j \in 1..Len(left) |-> T[left[j]]]
          /\ \A j \in 1..Len(T2) : T2[j] \in keep
          /\ \A ft \in TimeTypes :
               /\ KeySeq(dicts'[rec2[ft]].items) = KeySeq(dicts[rec[ft]].items)
               /\ \A n \in Keys(dicts[rec[ft]].items) :
                    LET v  == Deref(heap, Lookup(dicts[rec[ft]].items, n))
                        v2 == Deref(heap', Lookup(dicts'[rec2[ft]].items, n))
                    IN  v2 = [v EXCEPT !.rows = [j \in 1..Len(left) |-> v.rows[left[j]]]]

C13_Consolidated == [][C13_Step]_vars

(***************************************************************************)
(* C19.  time_series(ref_date, scale_time) on a patch with a non-empty     *)
(* timestamp sequence returns a sequence of the same length whose element  *)
(* i is (timestamp[i] - ref) in seconds divided by scale_time, rounded to  *)
(* a nearest integer, ref being timestamp[0] when no ref_date is given, so *)
(* that element 0 is then 0 and timestamps [t0, t0 + 90 s] give [0, 90] at *)
(* scale 1 and [0, 2] at scale 60; on an empty timestamp sequence it       *)
(* returns None; the patch is left as it was.                              *)
(***************************************************************************)
C19_Series ==
    last.op = "time_series" =>
      LET T     == Stamps(patches[last.p])
          scale == last.ref
          given == last.arg.rows
          ref   == IF given = <<>> THEN T[1] ELSE given[1]
      IN  IF T = <<>> THEN last.out = NoneVal
          ELSE /\ last.out.kind = "ndarray"
               /\ last.out.rest = <<>>
               /\ Len(last.out.rows) = Len(T)
               /\ \A i \in 1..Len(T) :
                    LET x == last.out.rows[i]
                    IN  /\ 2 * (x * scale - (T[i] - ref)) <= scale
                        /\ 2 * ((T[i] - ref) - x * scale) <= scale
               /\ given = <<>> => last.out.rows[1] = 0
               /\ (T = <<0, 90>> /\ given = <<>> /\ scale = 1) =>
                    last.out.rows = <<0, 90>>
               /\ (T = <<0, 90>> /\ given = <<>> /\ scale = 60) =>
                    last.out.rows = <<0, 2>>

C19_Step ==
    last'.op = "time_series" =>
      (heap' = heap /\ dicts' = dicts /\ patches' = patches)

C19_TimeSeries == []C19_Series /\ [][C19_Step]_vars

C19_Witness ==
    /\ last.op = "time_series" /\ last.ref = 60 /\ last.arg.rows = <<>>
    /\ Stamps(patches[last.p]) = <<0, 90>>
    /\ last.out.rows = <<0, 2>>

(***************************************************************************)
(* Saving to and loading from the directory.                               *)
(***************************************************************************)
\* FeatureType.contains_ndarrays()
contains_ndarrays(ft) ==
    ft \in {"data", "mask", "scalar", "label", "data_timeless", "mask_timeless",
            "scalar_timeless", "label_timeless"}

\* str.lower() on the feature names of the model.
lower(name) == IF name = "A" THEN "a" ELSE name

FeatureList(feature_list) ==
    IF feature_list = NoList THEN FeatureType ELSE feature_list

\* os.listdir(path) is not empty
HasEntries(f) == f.other \/ \E ft \in FeatureTypes : f.ents[ft].kind # "none"

\* What save finds at the path.
Found(f) ==
    IF f.kind # "dir" THEN f.kind
    ELSE IF HasEntries(f) THEN "entries" ELSE "empty"

\* The start of save without the removal of the directory.
PrepareDirKeep(f, overwrite) ==
    IF f.kind = "absent" THEN [err |-> "", fs |-> EmptyDir]
    ELSE IF f.kind = "file"
    THEN [err |-> "BaseException: file exists", fs |-> f]
    ELSE IF HasEntries(f) /\ ~overwrite
    THEN [err |-> "BaseException: folder contains files", fs |-> f]
    ELSE [err |-> "", fs |-> f]

\* The start of save that takes any directory as it is.
PrepareDirAppend(f, overwrite) ==
    IF f.kind = "absent" THEN [err |-> "", fs |-> EmptyDir]
    ELSE IF f.kind = "file"
    THEN [err |-> "BaseException: file exists", fs |-> f]
    ELSE [err |-> "", fs |-> f]

\* The start of save: the path must not be a file nor, without overwrite, a
\* directory with entries; with overwrite the directory is removed and made
\* anew; a path that does not exist is made a directory.
PrepareDir(f, overwrite) ==
    IF f.kind = "absent" THEN [err |-> "", fs |-> EmptyDir]
    ELSE IF f.kind = "file"
    THEN [err |-> "BaseException: file exists", fs |-> f]
    ELSE IF HasEntries(f)
    THEN IF ~overwrite
         THEN [err |-> "BaseException: folder contains files", fs |-> f]
         ELSE [err |-> "", fs |-> EmptyDir]
    ELSE [err |-> "", fs |-> f]

\* not self[feature_type]
NamespaceEmpty(st, rec, ft) ==
    IF has_dict(ft) THEN st.dicts[rec[ft]].items = <<>>
    ELSE ~Truthy(Deref(st.heap, rec[ft]))

\* What pickle.dump writes: get_dict() of a mapping, else the value.
Pickled(st, rec, ft) ==
    IF has_dict(ft)
    THEN LET items == st.dicts[rec[ft]].items
         IN  [i \in 1..Len(items) |->
                [k |-> items[i].k, v |-> Deref(st.heap, items[i].v)]]
    ELSE <<[k |-> "", v |-> Deref(st.heap, rec[ft])]>>

\* The check of the names as they are, without lower().
CaseCollisionExact(items) ==
    \E i, j \in 1..Len(items) : i # j /\ items[i].k = items[j].k

\* Two names of the dict are the same once in lower case.
CaseCollision(items) ==
    \E i, j \in 1..Len(items) : i # j /\ lower(items[i].k) = lower(items[j].k)

\* '{}.npy.gz' or '{}.npy'
Extension(compress) == IF compress THEN ".npy.gz" ELSE ".npy"

\* EOPatch._save_npy_feature_type: one file per feature, a file of the same
\* name being replaced.
save_npy_feature_type(st, rec, f, ft, compress) ==
    LET items == st.dicts[rec[ft]].items
        node  == f.ents[ft]
        new   == { [name |-> items[i].k, ext |-> Extension(compress),
                    v |-> Deref(st.heap, items[i].v)] : i \in 1..Len(items) }
        old   == { x \in node.files :
                     \A y \in new : ~(y.name = x.name /\ y.ext = x.ext) }
    IN  IF CaseCollision(items)
        THEN [err |-> "BaseException: casing", fs |-> f]
        ELSE IF node.kind = "file"
        THEN [err |-> "FileExistsError", fs |-> f]
        ELSE [err |-> "", fs |-> [f EXCEPT !.ents[ft] = DirNode(old \cup new)]]

\* One turn of the loop of save.
SaveOne(st, rec, f, ft, file_format, compress) ==
    IF NamespaceEmpty(st, rec, ft) THEN [err |-> "", fs |-> f]
    ELSE IF file_format = "pickle" \/ ~contains_ndarrays(ft)
    THEN IF f.ents[ft].kind = "dir"
         THEN [err |-> "IsADirectoryError", fs |-> f]
         ELSE [err |-> "",
               fs |-> [f EXCEPT !.ents[ft] = FileNode(Pickled(st, rec, ft))]]
    ELSE save_npy_feature_type(st, rec, f, ft, compress)

RECURSIVE SaveFrom(_, _, _, _, _, _)
SaveFrom(st, rec, f, list, file_format, compress) ==
    IF list = <<>> THEN [err |-> "", fs |-> f]
    ELSE LET r == SaveOne(st, rec, f, Head(list), file_format, compress)
         IN  IF r.err # "" THEN r
             ELSE SaveFrom(st, rec, r.fs, Tail(list), file_format, compress)

\* EOPatch.save(path, feature_list, file_format, overwrite, compress)
save(st, rec, f, opts) ==
    LET d == PrepareDir(f, opts.overwrite)
    IN  IF d.err # "" THEN d
        ELSE SaveFrom(st, rec, d.fs, FeatureList(opts.feature_list),
                      opts.file_format, opts.compress)

\* A function that loads a compressed array when called.
Loader(v) == [kind |-> "loader", rest |-> v.rest, rows |-> v.rows]

ArrayBearing == SelectSeq(FeatureType, contains_ndarrays)

\* The formats found under the paths of the array-bearing feature types.
FormatsFound(f) ==
    { IF f.ents[ft].kind = "file" THEN "pickle" ELSE "npy" :
        ft \in { t \in Range(ArrayBearing) : f.ents[t].kind # "none" } }

\* The format of the first array-bearing feature type found, no error raised.
get_file_format_first(f) ==
    LET found == SelectSeq(ArrayBearing, LAMBDA t : f.ents[t].kind # "none")
    IN  [err |-> "",
         format |-> IF found = <<>> THEN "None"
                    ELSE IF f.ents[found[1]].kind = "file" THEN "pickle" ELSE "npy"]

\* EOPatch._get_file_format(path)
get_file_format(f) ==
    IF Cardinality(FormatsFound(f)) > 1
    THEN [err |-> "ValueError: multiple file formats", format |-> "None"]
    ELSE [err |-> "",
          format |-> IF FormatsFound(f) = {} THEN "None"
                     ELSE CHOOSE x \in FormatsFound(f) : TRUE]

\* EOPatch._load_npy_feature_type: the dict of the features read from the
\* files of a directory, in some order of os.listdir; each value read is a
\* new object.
RECURSIVE load_npy_feature_type(_, _, _, _)
load_npy_feature_type(h, files, lazy, acc) ==
    IF files = {} THEN [heap |-> h, items |-> acc]
    ELSE LET x == CHOOSE y \in files : TRUE
             feature == IF x.ext = ".npy.gz" /\ lazy THEN Loader(x.v) ELSE x.v
         IN  IF x.ext \notin {".npy", ".npy.gz"}
             THEN load_npy_feature_type(h, files \ {x}, lazy, acc)
             ELSE load_npy_feature_type(Append(h, feature), files \ {x}, lazy,
                                        DictPut(acc, x.name, Len(h) + 1))

\* pickle.load: the objects of a pickled dict, list or box, made anew.
Unpickled(h, ft, payload) ==
    IF has_dict(ft)
    THEN LET a == AllocItems(h, payload, <<>>)
         IN  [heap |-> a.heap, value |-> ArgRaw(a.items)]
    ELSE [heap |-> Append(h, payload[1].v), value |-> ArgObj(Len(h) + 1)]

\* The loop of load over the feature types asked for.
RECURSIVE LoadFrom(_, _, _, _, _, _)
LoadFrom(h, f, list, file_format, lazy, content) ==
    IF list = <<>> THEN [err |-> "", heap |-> h, content |-> content]
    ELSE LET ft   == Head(list)
             node == f.ents[ft]
         IN  IF node.kind = "none"
             THEN LoadFrom(h, f, Tail(list), file_format, lazy, content)
             ELSE IF file_format = "pickle" \/ ~contains_ndarrays(ft)
             THEN IF node.kind = "dir"
                  THEN [err |-> "IsADirectoryError", heap |-> h, content |-> content]
                  ELSE IF node.pickle = <<>>
                  THEN LoadFrom(h, f, Tail(list), file_format, lazy, content)
                  ELSE LET u == Unpickled(h, ft, node.pickle)
                       IN  LoadFrom(u.heap, f, Tail(list), file_format, lazy,
                                    [content EXCEPT ![ft] = u.value])
             ELSE LET d == load_npy_feature_type(h, node.files, lazy, <<>>)
                  IN  LoadFrom(d.heap, f, Tail(list), file_format, lazy,
                               [content EXCEPT ![ft] = ArgRaw(d.items)])

\* EOPatch.load(path, feature_list, mmap, lazy)
load(st, f, opts) ==
    LET fmt == get_file_format(f)
        c   == LoadFrom(st.heap, f, FeatureList(opts.feature_list), fmt.format,
                        opts.lazy, NoKwargs)
        r   == EOPatchInit([st EXCEPT !.heap = c.heap], c.content)
        fail(e) == [err |-> e, st |-> st, rec |-> EmptyRec]
    IN  IF f.kind = "absent" THEN fail("ValueError: path does not exist")
        ELSE IF fmt.err # "" THEN fail(fmt.err)
        ELSE IF c.err # "" THEN fail(c.err)
        ELSE IF r.err # "" THEN fail(r.err)
        ELSE r

(***************************************************************************)
(* The disk program: one patch built by the constructor and a path in some *)
(* state, then calls of save and load on that path.                        *)
(***************************************************************************)
\* The keyword arguments of the patches saved: arrays under one name, two
\* names, two names that differ in case only; lists under vector, which is
\* pickled in either format; a box and timestamps.
DiskContents ==
    LET arr(n) == Item(n, Rank4(1, <<0>>))
        lst(n) == Item(n, List(<<0>>))
        c(data, vector, timeless, box, ts) ==
          [data |-> data, vector |-> vector, data_timeless |-> timeless,
           bbox |-> box, timestamp |-> ts]
    IN  { c(<<>>, <<>>, <<>>, 0, <<>>),
          c(<<arr("a")>>, <<>>, <<>>, 0, <<1>>),
          c(<<arr("a"), arr("b")>>, <<lst("a")>>, <<>>, 1, <<1, 2>>),
          c(<<arr("a"), arr("A")>>, <<>>, <<>>, 0, <<>>),
          c(<<arr("b")>>, <<lst("a"), lst("A")>>, <<>>, 0, <<>>),
          c(<<arr("a")>>, <<>>, <<Item("a", Rank3(<<0>>))>>, 0, <<1>>) }

\* EOPatch(data=..., vector=..., data_timeless=..., bbox=..., timestamp=...)
\* built in store st.
DiskPatchIn(st, c) ==
    LET a1 == AllocItems(st.heap, c.data, <<>>)
        a2 == AllocItems(a1.heap, c.vector, <<>>)
        a3 == AllocItems(a2.heap, c.data_timeless, <<>>)
        h0 == Append(a3.heap, List(c.timestamp))
        h  == IF c.bbox = 0 THEN h0 ELSE Append(h0, BBox(c.bbox))
        kw == [ft \in FeatureTypes |->
                 CASE ft = "data" -> ArgRaw(a1.items)
                   [] ft = "vector" -> ArgRaw(a2.items)
                   [] ft = "data_timeless" -> ArgRaw(a3.items)
                   [] ft = "timestamp" -> ArgObj(Len(h0))
                   [] ft = "bbox" -> IF c.bbox = 0 THEN ArgNone ELSE ArgObj(Len(h))
                   [] OTHER -> ArgNone]
    IN  EOPatchInit([heap |-> h, dicts |-> st.dicts], kw)

DiskPatch(c) == DiskPatchIn([heap |-> <<>>, dicts |-> <<>>], c)

\* What the path may be before the first call: absent, a file, an empty
\* directory, a directory with an entry of another name, with an earlier
\* patch in either format, or with the two formats side by side (among the
\* types of a feature list, or outside it).
DiskStates ==
    LET old    == Rank4(1, <<9>>)
        oldtl  == Rank3(<<9>>)
        pick(v) == FileNode(<<[k |-> "old", v |-> v]>>)
        dir(v)  == DirNode({[name |-> "old", ext |-> ".npy.gz", v |-> v]})
    IN  { NoPath, FileAtPath, EmptyDir,
          [EmptyDir EXCEPT !.other = TRUE],
          [EmptyDir EXCEPT !.ents["mask"] = pick(old)],
          [EmptyDir EXCEPT !.ents["mask"] = dir(old)],
          [EmptyDir EXCEPT !.ents["data"] = pick(old), !.ents["mask"] = dir(old)],
          [EmptyDir EXCEPT !.ents["mask"] = pick(old),
                           !.ents["data_timeless"] = dir(oldtl)] }

FeatureLists == { NoList, <<"data">> }

SaveOpts ==
    { [NoOpts EXCEPT !.feature_list = fl, !.file_format = ff, !.overwrite = ow,
                     !.compress = cp] :
        fl \in FeatureLists, ff \in {"pickle", "npy"}, ow \in BOOLEAN,
        cp \in BOOLEAN }

LoadOpts ==
    { [NoOpts EXCEPT !.feature_list = fl, !.lazy = lz] :
        fl \in FeatureLists, lz \in BOOLEAN }
      \cup { [NoOpts EXCEPT !.mmap = FALSE, !.lazy = FALSE] }

InitDisk ==
    \E c \in DiskContents, f \in DiskStates :
      LET b == DiskPatch(c)
      IN  /\ heap = b.st.heap
          /\ dicts = b.st.dicts
          /\ patches = <<b.rec>>
          /\ last = NoCall
          /\ steps = 0
          /\ fs = f
          /\ task = NoTask

\* patches[p].save(path, ...)
Save ==
    /\ steps < MaxSteps
    /\ \E p \in PatchIds, opts \in SaveOpts :
         LET r == save(Store, patches[p], fs, opts)
         IN  /\ fs' = r.fs
             /\ last' = [NoCall EXCEPT !.op = "save", !.p = p, !.err = r.err,
                            !.opts = [opts EXCEPT !.found = Found(fs)]]
    /\ UNCHANGED <<heap, dicts, patches, task>>
    /\ steps' = steps + 1

\* EOPatch.load(path, ...)
Load ==
    /\ steps < MaxSteps
    /\ \E opts \in LoadOpts :
         LET r == load(Store, fs, opts)
         IN  /\ heap' = r.st.heap
             /\ dicts' = r.st.dicts
             /\ patches' = IF r.err = "" THEN Append(patches, r.rec) ELSE patches
             /\ last' = [NoCall EXCEPT !.op = "load", !.err = r.err, !.opts = opts,
                            !.ret = IF r.err = "" THEN Len(patches) + 1 ELSE 0]
    /\ fs' = fs
    /\ steps' = steps + 1
    /\ UNCHANGED task

NextDisk == Save \/ Load

SpecDisk == InitDisk /\ [][NextDisk]_vars

(***************************************************************************)
(* The program of repeated saves: two patches and a path that does not     *)
(* exist, then calls of save and load on that path.                        *)
(***************************************************************************)
\* The second patch: no features, arrays in a namespace the first patch
\* has none in, or arrays whose names in the second namespace differ in
\* case only, which makes a save in the npy format fail after the first
\* namespace is written.
SecondContents ==
    LET arr(n) == Item(n, Rank4(1, <<0>>))
        tl(n)  == Item(n, Rank3(<<0>>))
        c(data, timeless) ==
          [data |-> data, vector |-> <<>>, data_timeless |-> timeless,
           bbox |-> 0, timestamp |-> <<1>>]
    IN  { c(<<>>, <<>>),
          c(<<>>, <<tl("a")>>),
          c(<<arr("b")>>, <<tl("a"), tl("A")>>) }

InitSaves ==
    \E c1 \in DiskContents, c2 \in SecondContents :
      LET b1 == DiskPatch(c1)
          b2 == DiskPatchIn(b1.st, c2)
      IN  /\ heap = b2.st.heap
          /\ dicts = b2.st.dicts
          /\ patches = <<b1.rec, b2.rec>>
          /\ last = NoCall
          /\ steps = 0
          /\ fs = NoPath
          /\ task = NoTask

NextSaves == Save \/ Load

SpecSaves == InitSaves /\ [][NextSaves]_vars

(***************************************************************************)
(* C14.  Round trip: a patch saved to a path that did not exist, in either *)
(* file format, compressed or not, and loaded from it with the same        *)
(* feature list and the default arguments of load, is loaded without error *)
(* and the patch loaded is equal to the patch saved (on the feature types  *)
(* of the list when one is given).                                         *)
(* The code fails to load what it saved compressed in the npy format: the  *)
(* default lazy=True hands functions to the constructor, which refuses     *)
(* them (see C17).                                                         *)
(***************************************************************************)
C14_Step ==
    ( /\ last.op = "save" /\ last.err = "" /\ last.opts.found = "absent"
      /\ last'.op = "load"
      /\ last'.opts.feature_list = last.opts.feature_list
      /\ last'.opts.mmap /\ last'.opts.lazy ) =>
      LET st2 == [heap |-> heap', dicts |-> dicts']
      IN  /\ last'.err = ""
          /\ \A ft \in Range(FeatureList(last.opts.feature_list)) :
               NamespaceEq(st2, patches'[last'.ret], patches[last.p], ft)
          /\ last.opts.feature_list = NoList =>
               PatchEq(st2, patches'[last'.ret], patches[last.p])

C14_RoundTrip == [][C14_Step]_vars

(***************************************************************************)
(* C15.  save(path): when path is a file, or a directory with entries and  *)
(* overwrite is false, save raises and leaves the path as it was; when     *)
(* path is a directory with entries and overwrite is true, everything that *)
(* was there is removed: afterwards the directory holds nothing but what   *)
(* this call wrote, whatever the feature list.                             *)
(***************************************************************************)
\* The entry of feature type ft holds the features of patch rec, no other.
WrittenFrom(node, rec, ft, compress) ==
    IF node.kind = "file"
    THEN /\ Len(node.pickle) = (IF has_dict(ft) THEN Len(dicts[rec[ft]].items) ELSE 1)
         /\ \A i \in 1..Len(node.pickle) :
              node.pickle[i].v = (IF has_dict(ft)
                                  THEN Held(rec, ft, node.pickle[i].k)
                                  ELSE Deref(heap, rec[ft]))
    ELSE /\ { x.name : x \in node.files } = Named(rec, ft)
         /\ \A x \in node.files :
              /\ x.v = Held(rec, ft, x.name)
              /\ x.ext = (IF compress THEN ".npy.gz" ELSE ".npy")

C15_Step ==
    last'.op = "save" =>
      LET occupied == fs.kind = "dir"
                        /\ (fs.other \/ \E ft \in FeatureTypes : fs.ents[ft] # NoNode)
          listed == Range(FeatureList(last'.opts.feature_list))
      IN  /\ fs.kind = "file" =>
               (last'.err = "BaseException: file exists" /\ fs' = fs)
          /\ (occupied /\ ~last'.opts.overwrite) =>
               (last'.err = "BaseException: folder contains files" /\ fs' = fs)
          /\ (occupied /\ last'.opts.overwrite) =>
               /\ fs'.kind = "dir" /\ ~fs'.other
               /\ \A ft \in FeatureTypes :
                    fs'.ents[ft] # NoNode =>
                      /\ ft \in listed
                      /\ WrittenFrom(fs'.ents[ft], patches[last'.p], ft,
                                     last'.opts.compress)

C15_SaveOverwrite == [][C15_Step]_vars

C15_Witness ==
    /\ last.op = "save" /\ last.err = "" /\ last.opts.found = "entries"
    /\ last.opts.overwrite /\ last.opts.feature_list = <<"data">>
    /\ fs.ents["data"].kind = "dir"
    /\ \A ft \in FeatureTypes \ {"data"} : fs.ents[ft] = NoNode
    /\ ~fs.other

(***************************************************************************)
(* C16.  save refuses names that differ in case only: for every patch in   *)
(* which a namespace that is saved holds two feature names that are the    *)
(* same once case is folded, save raises the casing error, in every file   *)
(* format and for every namespace.                                         *)
(* The code makes the check in _save_npy_feature_type only, that is for    *)
(* the array-bearing namespaces in the npy format, where each name becomes *)
(* a file name.                                                            *)
(***************************************************************************)
\* Feature type ft is saved by the call and two of its names differ in
\* case only.
CollidesIn(rec, ft, opts) ==
    /\ ft \in Range(FeatureList(opts.feature_list)) \cap DictTypes
    /\ {"a", "A"} \subseteq Named(rec, ft)

\* save got past the handling of the path: there was nothing, an empty
\* directory, or a directory it was told to overwrite.
PathTaken(opts) ==
    opts.found \in {"absent", "empty"} \/ (opts.found = "entries" /\ opts.overwrite)

C16_AnyFormatRejected ==
    (last.op = "save" /\ PathTaken(last.opts)) =>
      ((\E ft \in FeatureTypes : CollidesIn(patches[last.p], ft, last.opts)) =>
         last.err = "BaseException: casing")

(***************************************************************************)
(* C16 as the code has it.  A save in the npy format raises the casing     *)
(* error exactly when an array-bearing namespace that is saved holds two   *)
(* names that are the same in lower case; a save in the pickle format, and *)
(* the namespaces that hold no arrays (pickled in either format), never    *)
(* raise it.                                                               *)
(***************************************************************************)
C16_NpyRejected ==
    (last.op = "save" /\ PathTaken(last.opts)) =>
      ( last.err = "BaseException: casing" <=>
          /\ last.opts.file_format = "npy"
          /\ \E ft \in FeatureTypes :
               contains_ndarrays(ft) /\ CollidesIn(patches[last.p], ft, last.opts) )

C16_Witness ==
    /\ last.op = "save" /\ last.err = "BaseException: casing"
    /\ last.opts.found = "absent" /\ last.opts.file_format = "npy"
    /\ Named(patches[last.p], "data") = {"a", "A"}

(***************************************************************************)
(* C17.  Lazy load: load with lazy=True of a directory whose array         *)
(* namespaces were saved in the npy format with compression returns a      *)
(* patch in which every compressed feature is a function of no argument    *)
(* that gives the saved array when called; with lazy=False the feature is  *)
(* the array itself.                                                       *)
(* The code raises instead: the dict of loader functions goes through      *)
(* _FeatureDict.__setitem__, which accepts arrays of the right rank only.  *)
(***************************************************************************)
\* The compressed array files load reads for the feature types asked for.
CompressedRead(opts) ==
    { <<ft, x>> \in Range(FeatureList(opts.feature_list)) \X
                    UNION { fs.ents[t].files : t \in FeatureTypes } :
        contains_ndarrays(ft) /\ x \in fs.ents[ft].files /\ x.ext = ".npy.gz" }

C17_LazyLoad ==
    ( /\ last.op = "load"
      /\ fs.kind = "dir"
      /\ \A t \in FeatureTypes : contains_ndarrays(t) => fs.ents[t].kind # "file"
      /\ CompressedRead(last.opts) # {} ) =>
      /\ last.err = ""
      /\ \A c \in CompressedRead(last.opts) :
           Held(patches[last.ret], c[1], c[2].name)
             = (IF last.opts.lazy THEN Loader(c[2].v) ELSE c[2].v)

(***************************************************************************)
(* C18.  load(path) raises and returns no patch when path does not exist,  *)
(* and when, among the entries of the array-bearing feature types under    *)
(* path, one at least is a file (pickle format) and one at least is a      *)
(* directory (npy format); the entries of all array-bearing feature types  *)
(* count, also those outside the feature list asked for.                   *)
(***************************************************************************)
C18_LoadRefuses ==
    last.op = "load" =>
      /\ fs.kind = "absent" =>
           (last.err = "ValueError: path does not exist" /\ last.ret = 0)
      /\ ( /\ fs.kind = "dir"
           /\ \E t1, t2 \in FeatureTypes :
                /\ contains_ndarrays(t1) /\ contains_ndarrays(t2)
                /\ fs.ents[t1].kind = "file" /\ fs.ents[t2].kind = "dir" ) =>
           (last.err = "ValueError: multiple file formats" /\ last.ret = 0)

C18_Witness ==
    /\ last.op = "load" /\ last.err = "ValueError: multiple file formats"
    /\ last.opts.feature_list = <<"data">>
    /\ fs.ents["data"].kind = "none"
    /\ fs.ents["mask"].kind = "file" /\ fs.ents["data_timeless"].kind = "dir"

(***************************************************************************)
(* The input task of the processing API (SentinelHubInputTask).  Dates are *)
(* integers; the task is created with size=(1, 1), the default             *)
(* time_difference of one unit, no additional_data and, when bands_feature *)
(* is set, bands_feature=(FeatureType.DATA, 'BANDS').  The web feature     *)
(* service and the download client are outside the program: the dates the  *)
(* service lists and the requests whose download fails are inputs.         *)
(***************************************************************************)
TimeDifference == 1

Scalar(x) == [kind |-> "scalar", rest |-> <<>>, rows |-> <<x>>]

Text(s) == [kind |-> "str", rest |-> <<s>>, rows |-> <<>>]

\* sorted(dates)
RECURSIVE Sorted(_)
Sorted(S) ==
    IF S = {} THEN <<>>
    ELSE LET m == CHOOSE x \in S : \A y \in S : x <= y
         IN  <<m>> \o Sorted(S \ {m})

\* SentinelHubInputTask._get_timestamp(time_interval, bbox), the service
\* listing dates.
get_timestamp(t, time_interval, dates) ==
    IF t.single_scene THEN [err |-> "", timestamp |-> List(<<time_interval[1]>>)]
    ELSE IF dates = {}
    THEN [err |-> "ValueError: no available images", timestamp |-> NoneVal]
    ELSE LET d == Sorted(dates)
             later == SelectSeq([i \in 1..(Len(d) - 1) |-> i + 1],
                                LAMBDA i : d[i] - d[i - 1] > TimeDifference)
         IN  [err |-> "",
              timestamp |-> List(<<d[1]>> \o [k \in 1..Len(later) |-> d[later[k]]])]

\* SentinelHubInputBase.check_timestamp_difference(timestamp1, timestamp2):
\* the error raised, "" for none.  len(None) is a TypeError.
check_timestamp_difference(timestamp1, timestamp2) ==
    IF timestamp1.kind = "none" \/ timestamp2.kind = "none" THEN "TypeError: len"
    ELSE IF Len(timestamp1.rows) # Len(timestamp2.rows)
    THEN "ValueError: different timestamp"
    ELSE IF \E i \in 1..Len(timestamp1.rows) : timestamp1.rows[i] # timestamp2.rows[i]
    THEN "ValueError: different timestamp"
    ELSE ""

\* SentinelHubInputTask._build_payloads(bbox, size_x, size_y, timestamp,
\* time_interval): the number of payloads built.  Subscripting or iterating
\* None is a TypeError; _request_payload reads bbox.crs.
build_payloads(t, bbox, timestamp, time_interval) ==
    IF t.single_scene /\ time_interval = <<>> THEN [err |-> "TypeError: subscript", n |-> 0]
    ELSE IF ~t.single_scene /\ timestamp.kind = "none"
    THEN [err |-> "TypeError: iterate", n |-> 0]
    ELSE LET n == IF t.single_scene THEN 1 ELSE Len(timestamp.rows)
         IN  IF n > 0 /\ bbox = 0 THEN [err |-> "AttributeError: crs", n |-> 0]
             ELSE [err |-> "", n |-> n]

\* EOPatch.__setitem__(feature_type, value): key is <<feature_type>> or the
\* pair <<feature_type, feature_name>>; FeatureType(key) raises ValueError
\* for what is no feature type.
EOPatchSetItem(st, rec, key, value) ==
    IF Len(key) # 1 \/ key[1] \notin FeatureTypes
    THEN [err |-> "ValueError: not a valid FeatureType", st |-> st, rec |-> rec]
    ELSE SetAttr(st, rec, key[1], value)

\* eopatch.meta_info[name] = v
SetMeta(r, rec, name, v) ==
    IF r.err # "" THEN r
    ELSE LET h == Append(r.st.heap, v)
             w == FeatureDictSetItem(h, r.st.dicts[rec["meta_info"]], name, Len(h))
         IN  IF w.err # "" THEN [r EXCEPT !.err = w.err]
             ELSE [r EXCEPT !.st = [heap |-> h,
                                    dicts |-> [r.st.dicts EXCEPT ![rec["meta_info"]] = w.d]]]

\* SentinelHubInputTask._extract_data(eopatch, images, shape) with shape
\* (temporal_dim, 1, 1): _extract_bands_feature stores the array of the
\* bands under eopatch[self.bands_feature].
extract_data(st, rec, t, temporal_dim) ==
    IF ~t.bands_feature THEN [err |-> "", st |-> st, rec |-> rec]
    ELSE LET h == Append(st.heap, NdArray(<<1, 1, 1>>, [i \in 1..temporal_dim |-> i]))
         IN  EOPatchSetItem([st EXCEPT !.heap = h], rec, <<"data", "BANDS">>,
                            ArgObj(Len(h)))

\* execute(eopatch, bbox, time_interval) up to the call of the download
\* client (l.56-87), in the order of the code.  A call in progress is
\* c = [st, patches, p]: the store, the patches and the patch written to.
\* The result adds the error raised, the timestamp resolved and the number
\* of requests.
ExecuteStops(e, c, timestamp) ==
    [err |-> e, st |-> c.st, patches |-> c.patches, p |-> c.p,
     timestamp |-> timestamp, n |-> 0]

\* l.83-87: the payloads and the requests.
execute_requests(c, t, bbox, time_interval, timestamp) ==
    LET pay == build_payloads(t, bbox, timestamp, time_interval)
    IN  IF pay.err # "" THEN ExecuteStops(pay.err, c, timestamp)
        ELSE [err |-> "", st |-> c.st, patches |-> c.patches, p |-> c.p,
              timestamp |-> timestamp, n |-> pay.n]

\* l.80-81: eopatch.timestamp = timestamp
execute_assign(c, t, bbox, time_interval, timestamp) ==
    LET h == Append(c.st.heap, timestamp)
        set == SetAttr([c.st EXCEPT !.heap = h], c.patches[c.p], "timestamp",
                       ArgObj(Len(h)))
    IN  IF set.err # "" THEN ExecuteStops(set.err, c, timestamp)
        ELSE execute_requests([c EXCEPT !.st = set.st, !.patches[c.p] = set.rec],
                              t, bbox, time_interval, timestamp)

\* l.78-81: the timestamp of the patch is compared or assigned.
execute_timestamp(c, t, bbox, time_interval, timestamp) ==
    LET own == Deref(c.st.heap, c.patches[c.p]["timestamp"])
    IN  IF Truthy(own)
        THEN IF check_timestamp_difference(timestamp, own) # ""
             THEN ExecuteStops(check_timestamp_difference(timestamp, own), c, timestamp)
             ELSE execute_requests(c, t, bbox, time_interval, timestamp)
        ELSE IF Truthy(timestamp)
        THEN execute_assign(c, t, bbox, time_interval, timestamp)
        ELSE execute_requests(c, t, bbox, time_interval, timestamp)

\* l.72-76: the timestamp is resolved when a time interval is given.
execute_resolve(c, t, bbox, time_interval, dates) ==
    IF time_interval = <<>>
    THEN execute_timestamp(c, t, bbox, time_interval, NoneVal)
    ELSE LET got == get_timestamp(t, time_interval, dates)
         IN  IF got.err # "" THEN ExecuteStops(got.err, c, NoneVal)
             ELSE execute_timestamp(c, t, bbox, time_interval, got.timestamp)

\* l.63-65: eopatch = EOPatch(); eopatch.bbox = bbox
execute_new_patch(st, ps, bbox) ==
    LET new == EOPatchInit(st, NoKwargs)
        box == SetAttr(new.st, new.rec, "bbox", ArgObj(bbox))
    IN  [st |-> box.st, patches |-> Append(ps, box.rec), p |-> Len(ps) + 1]

\* seed is the patch passed (0 for None), bbox the bounding box passed (0
\* for None), time_interval <<>> for None.
execute_begin(st, ps, t, seed, bbox, time_interval, dates) ==
    IF seed # 0 /\ (bbox # 0 \/ time_interval # <<>>)
    THEN ExecuteStops("ValueError: either eopatch or bbox and time interval",
                      [st |-> st, patches |-> ps, p |-> seed], NoneVal)
    ELSE IF seed = 0
    THEN execute_resolve(execute_new_patch(st, ps, bbox), t, bbox, time_interval, dates)
    ELSE execute_resolve([st |-> st, patches |-> ps, p |-> seed], t, bbox,
                         time_interval, dates)

\* execute_end writing the size before it looks at the failed downloads.
execute_end_partial(st, rec, t, failed) ==
    LET m == SetMeta([err |-> "", st |-> st, rec |-> rec], rec, "size_x", Scalar(1))
    IN  IF failed # {} THEN [m EXCEPT !.err = "DownloadFailedException"] ELSE m

\* execute from the return of the download client on (l.88-102): failed
\* are the requests whose download failed, the client then raising.
execute_end(st, rec, t, failed) ==
    IF failed # {} THEN [err |-> "DownloadFailedException", st |-> st, rec |-> rec]
    ELSE
    LET temporal_dim == IF Truthy(t.timestamp) THEN Len(t.timestamp.rows) ELSE 1
        ext == extract_data(st, rec, t, temporal_dim)
        m1  == SetMeta(ext, ext.rec, "size_x", Scalar(1))
        m2  == SetMeta(m1, ext.rec, "size_y", Scalar(1))
        m3  == SetMeta(m2, ext.rec, "time_interval",
                       IF t.time_interval = <<>> THEN NoneVal ELSE List(t.time_interval))
        m4  == SetMeta(m3, ext.rec, "service_type", Text("processing"))
        m5  == SetMeta(m4, ext.rec, "maxcc", Scalar(1))
    IN  SetMeta(m5, ext.rec, "time_difference", Scalar(TimeDifference))

(***************************************************************************)
(* The program of the input task: a patch with or without time points and  *)
(* bounding box exists; execute is called with it or without a patch, and  *)
(* the download client returns.                                            *)
(***************************************************************************)
\* What the service may list: nothing, one date, dates closer than the time
\* difference and further apart.
ServiceDates == { {}, {1}, {1, 2, 4} }

SeedStamps == { <<>>, <<1>>, <<1, 4>> }

Intervals == { <<>>, <<1, 4>> }

\* EOPatch(bbox=box, timestamp=ts); heap0 holds the bounding box, which is
\* also the one the caller passes to execute.
SeedPatch(ts) ==
    LET h == << BBox(1), List(ts) >>
        kw == [ft \in FeatureTypes |->
                 CASE ft = "timestamp" -> ArgObj(2)
                   [] ft = "bbox" -> ArgObj(1)
                   [] OTHER -> ArgNone]
    IN  EOPatchInit([heap |-> h, dicts |-> <<>>], kw)

InitFetch ==
    \E ts \in SeedStamps, single_scene \in BOOLEAN, bands_feature \in BOOLEAN :
      LET b == SeedPatch(ts)
      IN  /\ heap = b.st.heap
          /\ dicts = b.st.dicts
          /\ patches = <<b.rec>>
          /\ last = NoCall
          /\ steps = 0
          /\ fs = NoPath
          /\ task = [NoTask EXCEPT !.single_scene = single_scene,
                                   !.bands_feature = bands_feature]

\* task.execute(eopatch, bbox, time_interval) runs up to the download.
Execute ==
    /\ steps < MaxSteps
    /\ task.pc = "idle"
    /\ \E seed \in {0, 1}, bbox \in {0, 1}, time_interval \in Intervals,
          dates \in ServiceDates :
         LET r == execute_begin(Store, patches, task, seed, bbox, time_interval, dates)
         IN  /\ heap' = r.st.heap
             /\ dicts' = r.st.dicts
             /\ patches' = r.patches
             /\ task' = [task EXCEPT !.pc = IF r.err = "" THEN "download" ELSE "idle",
                                     !.eopatch = r.p, !.bbox = bbox,
                                     !.time_interval = time_interval,
                                     !.dates = dates,
                                     !.timestamp = r.timestamp, !.requests = r.n]
             /\ last' = [NoCall EXCEPT !.op = "execute", !.p = seed, !.err = r.err]
    /\ steps' = steps + 1
    /\ UNCHANGED fs

\* client.download(requests) returns or raises, and execute runs to its end.
DownloadReturns ==
    /\ task.pc = "download"
    /\ \E failed \in SUBSET (1..task.requests) :
         LET r == execute_end(Store, patches[task.eopatch], task, failed)
         IN  /\ heap' = r.st.heap
             /\ dicts' = r.st.dicts
             /\ patches' = [patches EXCEPT ![task.eopatch] = r.rec]
             /\ last' = [last EXCEPT !.op = "download", !.err = r.err,
                            !.arg = SetVal(failed),
                            !.ret = IF r.err = "" THEN task.eopatch ELSE 0]
    /\ task' = [task EXCEPT !.pc = "idle"]
    /\ UNCHANGED <<steps, fs>>

NextFetch == Execute \/ DownloadReturns

SpecFetch == InitFetch /\ [][NextFetch]_vars

(***************************************************************************)
(* C20.  When execute is called with a patch whose timestamp is not        *)
(* empty, it raises the error of differing timestamps exactly when the     *)
(* timestamp it resolved differs from the patch's in length or at some     *)
(* position, and otherwise goes on to the download and leaves the          *)
(* timestamp of the patch as it was.                                       *)
(***************************************************************************)
C20_Step ==
    ( /\ last'.op = "execute" /\ task.pc = "idle" /\ last'.p # 0
      /\ Truthy(Deref(heap, patches[last'.p]["timestamp"])) ) =>
      LET own == Deref(heap, patches[last'.p]["timestamp"])
      IN  IF task'.timestamp # own
          THEN last'.err = "ValueError: different timestamp"
          ELSE /\ last'.err = ""
               /\ task'.pc = "download"
               /\ Deref(heap', patches'[last'.p]["timestamp"]) = own

C20_SeedTimestamp == [][C20_Step]_vars

(***************************************************************************)
(* C21.  Order of the fetch.  As stated: in every run of execute no        *)
(* namespace of the patch (timestamp, feature arrays, meta_info) is        *)
(* written before the download of all requests has returned, and when the  *)
(* download of a request fails execute fails as a whole, returns no patch  *)
(* and populates nothing.                                                  *)
(* The code assigns the bounding box and the resolved timestamp of the     *)
(* patch it creates before the download; what holds is: up to the download *)
(* execute writes nothing to a patch that existed before the call and      *)
(* only bbox and timestamp of the patch it creates, whose mappings are     *)
(* empty until the download has returned; after a failed download it       *)
(* returns no patch and writes nothing.                                    *)
(***************************************************************************)
\* The step is execute running up to the download, the step is the return
\* of the download.
ExecuteRuns == task.pc = "idle" /\ last'.op = "execute"

DownloadEnds == task.pc = "download" /\ last'.op = "download"

\* A failed download ends execute without a patch and without a write.
FailureWritesNothing ==
    (DownloadEnds /\ last'.arg.rows # {}) =>
      /\ last'.err = "DownloadFailedException"
      /\ last'.ret = 0
      /\ heap' = heap /\ dicts' = dicts /\ patches' = patches

C21_NothingBeforeDownloadStep ==
    /\ ExecuteRuns =>
         /\ \A p \in PatchIds :
              PatchView(heap', dicts', patches'[p]) = PatchView(heap, dicts, patches[p])
         /\ \A p \in (1..Len(patches')) \ PatchIds :
              /\ \A ft \in DictTypes : Keys(dicts'[patches'[p][ft]].items) = {}
              /\ Deref(heap', patches'[p]["timestamp"]).rows = <<>>
    /\ FailureWritesNothing

C21_NothingBeforeDownload == [][C21_NothingBeforeDownloadStep]_vars

C21_Step ==
    /\ ExecuteRuns =>
         /\ \A p \in PatchIds :
              PatchView(heap', dicts', patches'[p]) = PatchView(heap, dicts, patches[p])
         /\ \A p \in (1..Len(patches')) \ PatchIds : \A ft \in DictTypes :
              Keys(dicts'[patches'[p][ft]].items) = {}
    /\ FailureWritesNothing

C21_PopulatedAfterDownload ==
    /\ [](task.pc = "download" =>
            \A ft \in DictTypes : Named(patches[task.eopatch], ft) = {})
    /\ [][C21_Step]_vars

C21_Witness ==
    /\ last.op = "download" /\ last.err = "DownloadFailedException"
    /\ last.arg.rows = {2}
    /\ Stamps(patches[task.eopatch]) = <<1, 4>>
    /\ Named(patches[task.eopatch], "meta_info") = {}

(***************************************************************************)
(* C22.  A copy (shallow or deep) with a feature list of whole namespaces  *)
(* and of (namespace, name...) items holds all entries of the source in a  *)
(* namespace selected as a whole, exactly the named entries in a namespace *)
(* selected by name, and nothing in a namespace not selected; a namespace  *)
(* selected as a whole and by name is copied as a whole whatever the order *)
(* of the items; an item (bbox, name) or (timestamp, name) makes the copy  *)
(* fail; the source patch stays as it was.  A named entry the source does  *)
(* not hold makes the copy fail with a KeyError.                           *)
(* The code does not keep it for a source whose array namespace is bound   *)
(* to the _FeatureDict of another namespace (see C1): the named entries    *)
(* are written through the check of the new mapping, which refuses them.   *)
(***************************************************************************)
SelectedWhole(sel) == { sel[i].ft : i \in { j \in 1..Len(sel) : sel[j].whole } }

SelectedNames(sel, ft) ==
    UNION { { sel[i].names[k] : k \in 1..Len(sel[i].names) } :
              i \in { j \in 1..Len(sel) : ~sel[j].whole /\ sel[j].ft = ft } }

SelectedByName(sel) ==
    { sel[i].ft : i \in { j \in 1..Len(sel) : ~sel[j].whole } } \ SelectedWhole(sel)

\* What the copy has to hold in namespace ft.
Expected(src, sel, ft) ==
    IF ft \in SelectedWhole(sel) THEN View(heap, dicts, src, ft)
    ELSE IF ft \in SelectedByName(sel)
    THEN { e \in View(heap, dicts, src, ft) : e[1] \in SelectedNames(sel, ft) }
    ELSE IF has_dict(ft) THEN {}
    ELSE IF ft = "timestamp" THEN { <<"", List(<<>>)>> }
    ELSE { <<"", NoneVal>> }

C22_Selected ==
    last.op \in {"copy_selected", "deepcopy_selected"} =>
      LET sel == last.arg.rows
          src == patches[last.p]
      IN  IF \E i \in 1..Len(sel) : ~sel[i].whole /\ sel[i].ft \in {"bbox", "timestamp"}
          THEN last.err \in {"ValueError: cannot be in a tuple"} /\ last.ret = 0
          ELSE IF \E ft \in SelectedByName(sel) :
                    ~(SelectedNames(sel, ft) \subseteq Named(src, ft))
          THEN last.err = "KeyError" /\ last.ret = 0
          ELSE /\ last.err = ""
               /\ \A ft \in FeatureTypes :
                    View(heap, dicts, patches[last.ret], ft) = Expected(src, sel, ft)

C22_SourceKept ==
    (last'.op \in {"copy_selected", "deepcopy_selected"}) =>
      \A p \in PatchIds :
        PatchView(heap', dicts', patches'[p]) = PatchView(heap, dicts, patches[p])

C22_CopySelection == []C22_Selected /\ [][C22_SourceKept]_vars

(***************************************************************************)
(* C23.  concatenate(p1, p2) leaves both patches as they were, whether it  *)
(* returns or raises: every namespace of every patch that existed before   *)
(* the call is deeply equal to what it was, the merged patch has mappings  *)
(* of its own, and adding a feature to the merged patch or removing one    *)
(* from it right after does not change the feature names of p1 or p2.      *)
(***************************************************************************)
C23_Step ==
    /\ last'.op = "concatenate" =>
         \A p \in PatchIds :
           /\ PatchView(heap', dicts', patches'[p]) = PatchView(heap, dicts, patches[p])
           /\ last'.err = "" =>
                DictRefs(patches'[last'.ret]) \cap DictRefs(patches'[p]) = {}
    /\ ( /\ last.op = "concatenate" /\ last.err = ""
         /\ last'.op \in {"add_feature", "remove_feature"}
         /\ last'.p = last.ret ) =>
         \A p \in {last.p, last.q} : \A ft \in DictTypes :
           Keys(dicts'[patches'[p][ft]].items) = Named(patches[p], ft)

Aligned(h, ds, rec) ==
    \A ft \in TimeTypes : \A e \in View(h, ds, rec, ft) :
      e[2].kind \in {"ndarray", "list"} =>
        Len(e[2].rows) = Len(Deref(h, rec["timestamp"]).rows)

C24_Step ==
    ( /\ last'.op = "consolidate_timestamps"
      /\ Aligned(heap, dicts, patches[last'.p]) ) =>
      /\ last'.err = ""
      /\ Aligned(heap', dicts', patches'[last'.p])
      /\ \A ft \in FeatureTypes \ (TimeTypes \cup {"timestamp"}) :
           View(heap', dicts', patches'[last'.p], ft)
             = View(heap, dicts, patches[last'.p], ft)

C24_AlignmentKept == [][C24_Step]_vars

C24_Witness ==
    /\ last.op = "consolidate_timestamps" /\ last.err = ""
    /\ last.out = SetVal({0, 90})
    /\ Stamps(patches[1]) = <<40>>
    /\ "a" \in Named(patches[1], "data") /\ "v" \in Named(patches[1], "vector")
    /\ Held(patches[1], "data", "a").rows = <<2>>
    /\ Held(patches[1], "vector", "v").rows = <<2>>
    /\ Held(patches[1], "data_timeless", "t").rows = <<0>>

(***************************************************************************)
(* C25.  From a path that does not exist, after any calls of save on it    *)
(* (any patch, feature list, file format, compress and overwrite flag,     *)
(* failed calls included) the entries of the array-bearing feature types   *)
(* under the path are all files or all directories, so _get_file_format    *)
(* finds one format at most and no load fails for mixed formats.           *)
(***************************************************************************)
C25_OneFormat ==
    /\ Cardinality(FormatsFound(fs)) <= 1
    /\ get_file_format(fs).err = ""
    /\ last.op = "load" => last.err # "ValueError: multiple file formats"

\* A save in the npy format without overwrite is refused on the directory
\* an earlier save has filled in the pickle format.
C25_Witness ==
    /\ steps = 2
    /\ last.op = "save" /\ last.err = "BaseException: folder contains files"
    /\ last.opts.file_format = "npy" /\ ~last.opts.overwrite
    /\ NamespaceEmpty(Store, patches[last.p], "data")
    /\ ~NamespaceEmpty(Store, patches[last.p], "data_timeless")
    /\ fs.ents["data"].kind = "file" /\ fs.ents["data_timeless"].kind = "none"

====
